---- MODULE Spec2Model ----
(***************************************************************************)
(* Model of the auto-trading pipeline of the pump.fun sniper:              *)
(*   main's message loop   (src/src/main.rs)                               *)
(*   ShredstreamClient     (src/src/client/mod.rs)                         *)
(*   parse_instruction_data (src/src/instruction/mod.rs)                   *)
(*   TransactionProcessor  (src/src/processor/mod.rs)                      *)
(*   AutoTrader            (src/src/utils/auto_trader.rs)                  *)
(*   RedisClient           (src/src/utils/redis.rs)                        *)
(*   BlockhashCache        (src/src/utils/blockhash_cache.rs)              *)
(*   pump_buy / pump_sell  (src/src/transaction/mod.rs)                    *)
(*                                                                         *)
(* Units.  Quote amounts are counted in units of 10^7 lamports and asset   *)
(* amounts in units of 10^12 raw tokens, so that the program's constants   *)
(* fit the model checker's integers: 0.1 SOL = 10, 30 SOL = 3000,          *)
(* 1.073 * 10^15 raw tokens = 1073.  Time is counted in ticks of 500 ms.   *)
(* An f64 price is the pair [n, d] standing for n / d in these units, with *)
(* the IEEE conventions n/0 = +inf (n > 0), -inf (n < 0) and 0/0 = NaN.    *)
(***************************************************************************)
EXTENDS Integers, Sequences, FiniteSets, TLC

\* ------------------------------------------------------------------ bounds
\* Number of snipe tasks the processor may spawn (one per observed buy).
MaxTasks == 2
\* Last tick of the clock.
MaxTime == 2

\* --------------------------------------------------------------- constants
\* BlockhashCache::new(&rpc_url, 500): 500 ms.
MaxAgeTicks == 1
\* sleep(Duration::from_secs(1)).
SleepTicks == 2
\* virtual_sol_reserves = 30_000_000_000 lamports.
InitialVirtualSolReserves == 3000
\* virtual_token_reserves = 1_073_000_000_000_000 raw tokens.
InitialVirtualTokenReserves == 1073
\* buy_sol = 100_000_000 lamports, the scheduler's fallback position size.
FallbackBuySol == 10
\* u64::MAX in units of 10^12.
MaxU64 == 18446744

Mints == {"X", "Y"}
\* Lexicographic order of the member strings (the sorted set's tie-break).
MintOrder == <<"X", "Y">>

\* Quote and asset amounts carried by the observed buy instructions.
SolAmounts == {49, 50}
TokenAmounts == {34}

\* Trading policies main() may install from the environment:
\* [min_sol_price, max_sol_price, buy_amount, sell_delay_ms].
Policies ==
    { [min |-> 50,  max |-> 300, buy |-> 10, delay |-> 1],
      [min |-> 300, max |-> 50,  buy |-> 10, delay |-> 1] }

\* ------------------------------------------------------------------ Option
None == <<>>
Some(v) == <<v>>
Unwrap(o) == o[1]

\* --------------------------------------------------------------------- f64
Price(n, d) == [n |-> n, d |-> d]
IsNaN(p) == p.n = 0 /\ p.d = 0
IsPosInf(p) == p.n > 0 /\ p.d = 0
\* token_price <= 0.0 : false for NaN, true for -inf, negatives and zero.
PriceLeZero(p) == ~IsNaN(p) /\ p.n <= 0
\* 0.000000033 SOL per token = 33/10 in model units.
DefaultPrice == Price(33, 10)

\* `x as u64` of a non-negative float: saturating.
AsU64(x) == IF x > MaxU64 THEN MaxU64 ELSE x

\* floor(buy_sol / 1e9 / price * 0.85 * 1e6) as u64, for a price that passed
\* the check of line 213 (NaN and +inf included: NaN casts to 0, x/inf = 0).
SnipeAmount(buy_sol, p) ==
    IF IsNaN(p) \/ p.d = 0 THEN 0
    ELSE AsU64((85 * buy_sol * p.d) \div (100 * p.n))

\* Faulty variant of ShouldSnipe: the upper bound taken exclusive.
ShouldSnipeExclusiveMax(pol, sol_amount) ==
    sol_amount >= pol.min /\ sol_amount < pol.max

\* should_snipe
ShouldSnipe(pol, sol_amount) == sol_amount >= pol.min /\ sol_amount <= pol.max

\* ------------------------------------------------------- decimal strings
RECURSIVE U64ToString(_)
U64ToString(n) ==
    IF n < 10 THEN <<n>> ELSE Append(U64ToString(n \div 10), n % 10)

RECURSIVE DigitsValue(_)
DigitsValue(s) ==
    IF Len(s) = 0 THEN 0
    ELSE 10 * DigitsValue(SubSeq(s, 1, Len(s) - 1)) + s[Len(s)]

\* amount_str.parse::<u64>() : Ok(v) or Err (empty, non-digit, overflow).
ParseU64(s) ==
    IF Len(s) = 0 \/ (\E i \in 1..Len(s) : s[i] \notin 0..9) THEN None
    ELSE IF DigitsValue(s) > MaxU64 THEN None
    ELSE Some(DigitsValue(s))

\* ------------------------------------------------------------- sorted set
\* "mints_to_sell": a set of <<member, score>> pairs.
ZAdd(z, m, score) == {e \in z : e[1] # m} \cup {<<m, score>>}
ZRem(z, m) == {e \in z : e[1] # m}

MintRank(m) == CHOOSE i \in 1..Len(MintOrder) : MintOrder[i] = m
ZBefore(a, b) == a[2] < b[2] \/ (a[2] = b[2] /\ MintRank(a[1]) < MintRank(b[1]))

RECURSIVE ZSorted(_)
ZSorted(z) ==
    IF z = {} THEN <<>>
    ELSE LET first == CHOOSE a \in z : \A b \in z \ {a} : ZBefore(a, b)
         IN <<first[1]>> \o ZSorted(z \ {first})

\* ZRANGEBYSCORE key lo hi : the members in score order.
ZRangeByScore(z, lo, hi) == ZSorted({e \in z : lo <= e[2] /\ e[2] <= hi})

\* ---------------------------------------------------------------- ledger
\* The block reference the ledger RPC answers with at a given tick.
LedgerHash(t) == t + 1

\* --------------------------------------------------------------- reserves
\* Faulty variant of TokenPrice: an untracked mint is priced as if it had
\* just been created.
TokenPriceAssumesInitial(res, m) ==
    IF res[m] # None
    THEN Price(Unwrap(res[m]).sol, Unwrap(res[m]).tok)
    ELSE Price(InitialVirtualSolReserves, InitialVirtualTokenReserves)

\* Lines 124-130: the price handed to the snipe task.
TokenPrice(res, m) ==
    IF res[m] # None
    THEN Price(Unwrap(res[m]).sol, Unwrap(res[m]).tok)
    ELSE DefaultPrice

SaturatingSub(a, b) == IF b > a THEN 0 ELSE a - b

\* Faulty variant of SaturatingAdd: the sum wraps around.
SaturatingAddWraps(a, b) == (a + b) % (MaxU64 + 1)

\* u64::saturating_add, the width being that of MaxU64.
SaturatingAdd(a, b) == IF a + b > MaxU64 THEN MaxU64 ELSE a + b

\* Lines 160-170: the reserve update of a buy event.
UpdateReserves(r, token_amount, sol_amount) ==
    [sol |-> SaturatingAdd(r.sol, sol_amount),
     tok |-> IF token_amount <= r.tok
             THEN SaturatingSub(r.tok, token_amount)
             ELSE r.tok]

\* ------------------------------------------------------------------ cache
\* Faulty variants of CacheValid: the value expires one tick early; a value of age
\* exactly max_age is still served.
CacheValidExpiresEarly(c, now) == c # None /\ now - Unwrap(c).ts < MaxAgeTicks - 1
CacheValidServesExpired(c, now) == c # None /\ now - Unwrap(c).ts <= MaxAgeTicks
\* Faulty variant of CacheValid: any stored value is served.
CacheValidIgnoresAge(c, now) == c # None

\* timestamp.elapsed() < self.max_age
CacheValid(c, now) == c # None /\ now - Unwrap(c).ts < MaxAgeTicks
\* *cache = Some((blockhash, Instant::now()))
CacheStore(h, now) == Some([hash |-> h, ts |-> now])

\* Faulty variant of FetchFailure: the expired value is served on an error.
FetchFailureServesStale(c) ==
    [ret |-> IF c = None THEN None ELSE Some(Unwrap(c).hash), slot |-> c]

\* Line 47, `.await?`: a failed fetch returns the error before the slot is
\* written; ret is what the caller gets (<<>> for Err), slot the cache.
FetchFailure(c) == [ret |-> None, slot |-> c]

\* ------------------------------------------------------------------ state
VARIABLES
    clock,       \* wall clock / monotonic clock, in ticks
    policy,      \* AutoTrader's min/max price, buy amount, sell delay
    reserves,    \* TransactionProcessor.token_reserves
    tasks,       \* the spawned snipe tasks
    traderLock,  \* owner of Arc<Mutex<AutoTrader>> (<<>> when free)
    cache,       \* BlockhashCache.cached_blockhash
    cacheLock,   \* owner of the cache's mutex (<<>> when free)
    zset,        \* redis sorted set "mints_to_sell"
    amounts,     \* redis hash "mint_amounts"
    sched,       \* the auto-sell loop
    lastStore,   \* history: per mint, the schedule last written for its entry
    handled,     \* history: mints popped and handled since their last buy
    owed,        \* history: per mint, the due time of the schedule last written
                 \* and not yet followed by a sell read at or after it
    payload,     \* the instruction data handed to parse_instruction_data
    decoded,     \* what the call returned (<<>> before it returns)
    stream,      \* main's loop over the buffers of the entry stream
    client       \* ShredstreamClient: the connect / subscribe_entries call

vars == <<clock, policy, reserves, tasks, traderLock, cache, cacheLock,
          zset, amounts, sched, lastStore, handled, owed,
          payload, decoded, stream, client>>

TaskIds == 1..MaxTasks
SchedId == "sched"

\* main's loop at stream.message(): buffers are the buffers still to come,
\* txs the transactions of the buffer in process_entries, keys and instrs
\* the account keys and the remaining instructions of the transaction in
\* process_message_v0.  skipped and bad are history: the buffers that
\* failed to deserialize and the instructions whose payload failed to
\* decode; why is the index that panicked.
InitStream ==
    [pc |-> "message", buffers |-> <<>>, txs |-> <<>>, keys |-> <<>>,
     instrs |-> <<>>, skipped |-> 0, bad |-> 0, why |-> "none"]

\* The client with no call in progress.  retries and cretries are the
\* counters of subscribe_entries and of connect; conns and subs are history:
\* the connection attempts of the current connect call and the subscription
\* attempts; waits is history: the sleeps of the call, in seconds; result
\* is "ok" or "err" and err the attempt whose error was returned.
InitClient ==
    [op |-> "none", pc |-> "idle", retries |-> 0, cretries |-> 0,
     conns |-> 0, subs |-> 0, waits |-> <<>>, result |-> "none",
     err |-> <<>>]

\* A snipe task not yet spawned.  sol and price are the values the closure
\* captures; tok is history: the asset amount of the event that spawned it.
IdleTask ==
    [pc |-> "idle", mint |-> "X", sol |-> 0, tok |-> 0, price |-> Price(1, 1),
     amount |-> 0, bh |-> None, tx |-> None, nfetch |-> 0, own |-> 0,
     subs |-> 0, res |-> "none"]

\* The auto-sell loop at the top of an iteration.  popped and rebought are
\* history: the schedule each entry of the batch had when it was read, and
\* the mints of the batch bought again since.  subs and sres are the sell
\* submissions made for the current entry and the answer to the last one;
\* result is what the task returned by start finished with.
\* calls is history: the accessor calls made in this iteration.
InitSched ==
    [pc |-> "pop_read", batch |-> <<>>, idx |-> 0, readAt |-> 0, wake |-> 0,
     bh |-> None, tx |-> None, nfetch |-> 0, own |-> 0, amount |-> 0,
     popped |-> <<>>, rebought |-> {}, subs |-> 0, sres |-> "none",
     result |-> "none", calls |-> 0]

\* A snipe task that has returned: only its result is kept.
DoneTask(r, res) ==
    [IdleTask EXCEPT !.pc = "done", !.res = res, !.subs = r.subs]

Init ==
    /\ clock = 0
    /\ policy \in Policies
    /\ reserves = [m \in Mints |-> None]
    /\ tasks = [i \in TaskIds |-> IdleTask]
    /\ traderLock = None
    /\ cache = None
    /\ cacheLock = None
    /\ zset = {}
    /\ amounts = [m \in Mints |-> None]
    /\ sched = InitSched
    /\ lastStore = [m \in Mints |-> None]
    /\ handled = {}
    /\ owed = [m \in Mints |-> None]
    /\ payload = <<>>
    /\ decoded = None
    /\ stream = InitStream
    /\ client = InitClient

\* ------------------------------------------------------------------- time
Tick ==
    /\ clock < MaxTime
    /\ clock' = clock + 1
    /\ UNCHANGED <<policy, reserves, tasks, traderLock, cache, cacheLock,
                   zset, amounts, sched, lastStore, handled, owed,
                   payload, decoded, stream, client>>

\* -------------------------------------------------------------- processor
\* Faulty variant of CreateEvent: a creation event resets a tracked mint.
CreateEventResets(m) ==
    /\ reserves' = [reserves EXCEPT ![m] =
                      Some([sol |-> InitialVirtualSolReserves,
                            tok |-> InitialVirtualTokenReserves])]
    /\ UNCHANGED <<clock, policy, tasks, traderLock, cache, cacheLock,
                   zset, amounts, sched, lastStore, handled, owed,
                   payload, decoded, stream, client>>

\* "CreateEvent" arm: insert the initial reserves unless the mint is tracked.
CreateArm(m) ==
    /\ reserves' =
         IF reserves[m] = None
         THEN [reserves EXCEPT ![m] =
                 Some([sol |-> InitialVirtualSolReserves,
                       tok |-> InitialVirtualTokenReserves])]
         ELSE reserves
    /\ UNCHANGED tasks

\* A creation instruction for mint m is processed.
CreateEvent(m) ==
    /\ CreateArm(m)
    /\ UNCHANGED <<clock, policy, traderLock, cache, cacheLock,
                   zset, amounts, sched, lastStore, handled, owed,
                   payload, decoded, stream, client>>

\* Faulty variant of BuyEvent: the processor takes the trader's lock before
\* it dispatches the snipe.
BuyEventAwaitsTrader(m, token_amount, sol_amount) ==
    /\ traderLock = None
    /\ \E i \in TaskIds : tasks[i].pc = "idle"
    /\ LET i == CHOOSE j \in TaskIds :
                  tasks[j].pc = "idle" /\ \A k \in 1..(j - 1) : tasks[k].pc # "idle"
       IN tasks' = [tasks EXCEPT ![i] =
                      [IdleTask EXCEPT !.pc = "spawned", !.mint = m,
                                       !.sol = sol_amount,
                                       !.tok = token_amount,
                                       !.price = TokenPrice(reserves, m)]]
    /\ reserves' =
         IF reserves[m] # None
         THEN [reserves EXCEPT ![m] =
                 Some(UpdateReserves(Unwrap(reserves[m]), token_amount, sol_amount))]
         ELSE reserves
    /\ UNCHANGED <<clock, policy, traderLock, cache, cacheLock,
                   zset, amounts, sched, lastStore, handled, owed,
                   payload, decoded, stream, client>>

\* "Buy" arm: spawn the snipe task with the price read before the update,
\* then update the reserves of a tracked mint.
BuyArm(m, token_amount, sol_amount) ==
    /\ \E i \in TaskIds : tasks[i].pc = "idle"
    /\ LET i == CHOOSE j \in TaskIds :
                  tasks[j].pc = "idle" /\ \A k \in 1..(j - 1) : tasks[k].pc # "idle"
       IN tasks' = [tasks EXCEPT ![i] =
                      [IdleTask EXCEPT !.pc = "spawned", !.mint = m,
                                       !.sol = sol_amount,
                                       !.tok = token_amount,
                                       !.price = TokenPrice(reserves, m)]]
    /\ reserves' =
         IF reserves[m] # None
         THEN [reserves EXCEPT ![m] =
                 Some(UpdateReserves(Unwrap(reserves[m]), token_amount, sol_amount))]
         ELSE reserves

\* A buy instruction for mint m is processed.
BuyEvent(m, token_amount, sol_amount) ==
    /\ BuyArm(m, token_amount, sol_amount)
    /\ UNCHANGED <<clock, policy, traderLock, cache, cacheLock,
                   zset, amounts, sched, lastStore, handled, owed,
                   payload, decoded, stream, client>>

\* ------------------------------------------------------------ transaction
\* Faulty variant of UsesCachedBlockhash: the executor always fetches for itself.
IgnoresCachedBlockhash(cached_blockhash) == FALSE


\* pump_buy / pump_sell, "Get blockhash": the caller's reference when one is
\* handed over, the executor's own RPC fetch otherwise.
UsesCachedBlockhash(cached_blockhash) == cached_blockhash # None

\* ------------------------------------------------------------------ redis
\* store_mint_with_amount under the connection lock.  outcome names the
\* command that failed: "ok", "zadd_err" (first `?`) or "hset_err" (second).
StoreSellTime(now, delay_ms) == now + delay_ms

StoreZset(z, m, now, delay_ms, outcome) ==
    IF outcome = "zadd_err" THEN z ELSE ZAdd(z, m, StoreSellTime(now, delay_ms))

StoreAmounts(h, m, amount, outcome) ==
    IF outcome = "ok" THEN [h EXCEPT ![m] = Some(U64ToString(amount))] ELSE h

\* get_mint_amount's value for an answered HGET: Some(amount) or None.
MintAmount(h, m) == IF h[m] = None THEN None ELSE ParseU64(Unwrap(h[m]))

\* Lines 137-155: the estimated amount used when no amount is recorded.
EstimatedAmount ==
    AsU64((85 * FallbackBuySol * DefaultPrice.d) \div (100 * DefaultPrice.n))

\* Lines 119 and 134: the amount handed to pump_sell.
SellAmount(h, m) ==
    IF MintAmount(h, m) # None THEN Unwrap(MintAmount(h, m)) ELSE EstimatedAmount

\* The loop of lines 134-136: ZREM of the first k members of the batch.
RECURSIVE ZRemAll(_, _, _)
ZRemAll(z, batch, k) ==
    IF k = 0 THEN z ELSE ZRem(ZRemAll(z, batch, k - 1), batch[k])

\* ------------------------------------------------------------ snipe tasks
\* processor lines 140-143: lock the trader, evaluate should_snipe, unlock.
TaskShouldSnipe(i) ==
    /\ tasks[i].pc = "spawned"
    /\ traderLock = None
    /\ tasks' = [tasks EXCEPT ![i] =
                   IF ShouldSnipe(policy, tasks[i].sol)
                   THEN [tasks[i] EXCEPT !.pc = "wait_lock"]
                   ELSE DoneTask(tasks[i], "skipped")]
    /\ UNCHANGED <<clock, policy, reserves, traderLock, cache, cacheLock,
                   zset, amounts, sched, lastStore, handled, owed,
                   payload, decoded, stream, client>>

\* processor line 151 and snipe_token lines 202-240: lock the trader, reject
\* a price <= 0, size the position, reach the cache accessor.
TaskSnipeStart(i) ==
    /\ tasks[i].pc = "wait_lock"
    /\ traderLock = None
    /\ IF PriceLeZero(tasks[i].price)
       THEN /\ tasks' = [tasks EXCEPT ![i] = DoneTask(tasks[i], "err_price")]
            /\ UNCHANGED traderLock
       ELSE /\ tasks' = [tasks EXCEPT
                           ![i].pc = "cache_get",
                           ![i].amount = SnipeAmount(policy.buy, tasks[i].price)]
            /\ traderLock' = Some(i)
    /\ UNCHANGED <<clock, policy, reserves, cache, cacheLock,
                   zset, amounts, sched, lastStore, handled, owed,
                   payload, decoded, stream, client>>

\* The state a caller is in once the accessor returned bh and the executor
\* ran up to its first await (send when bh is Some, own fetch when None).
AfterCache(r, bh, send, fetch) ==
    [r EXCEPT !.bh = bh,
              !.tx = IF UsesCachedBlockhash(bh) THEN bh ELSE None,
              !.pc = IF UsesCachedBlockhash(bh) THEN send ELSE fetch]

\* get_latest_blockhash lines 31-39: take the slot lock; return a valid value.
\* Lines 41-47: otherwise issue the RPC fetch, the lock still held.
TaskCacheBegin(i) ==
    /\ tasks[i].pc = "cache_get"
    /\ cacheLock = None
    /\ IF CacheValid(cache, clock)
       THEN /\ tasks' = [tasks EXCEPT ![i] =
                           AfterCache([tasks[i] EXCEPT !.nfetch = 0],
                                      Some(Unwrap(cache).hash),
                                      "buy_send", "buy_fetch")]
            /\ UNCHANGED cacheLock
       ELSE /\ tasks' = [tasks EXCEPT ![i].pc = "cache_fetch", ![i].nfetch = 1]
            /\ cacheLock' = Some(i)
    /\ UNCHANGED <<clock, policy, reserves, traderLock, cache,
                   zset, amounts, sched, lastStore, handled, owed,
                   payload, decoded, stream, client>>

\* Lines 47-53: the fetch answers; on success store and return the value, on
\* failure return the error; the lock is released either way.
TaskCacheFetchDone(i, ok) ==
    /\ tasks[i].pc = "cache_fetch"
    /\ cacheLock' = None
    /\ IF ok
       THEN /\ cache' = CacheStore(LedgerHash(clock), clock)
            /\ tasks' = [tasks EXCEPT ![i] =
                           AfterCache(tasks[i], Some(LedgerHash(clock)),
                                      "buy_send", "buy_fetch")]
       ELSE /\ cache' = FetchFailure(cache).slot
            /\ tasks' = [tasks EXCEPT ![i] =
                           AfterCache(tasks[i], FetchFailure(cache).ret,
                                      "buy_send", "buy_fetch")]
    /\ UNCHANGED <<clock, policy, reserves, traderLock,
                   zset, amounts, sched, lastStore, handled, owed,
                   payload, decoded, stream, client>>

\* pump_buy lines 137-143: the executor's own fetch; unwrap() panics on an
\* error, which ends the task and drops the trader's guard.
TaskOwnFetchDone(i, ok) ==
    /\ tasks[i].pc = "buy_fetch"
    /\ IF ok
       THEN /\ tasks' = [tasks EXCEPT ![i].pc = "buy_send",
                                      ![i].tx = Some(LedgerHash(clock)),
                                      ![i].own = @ + 1]
            /\ UNCHANGED traderLock
       ELSE /\ tasks' = [tasks EXCEPT ![i] =
                           [DoneTask(tasks[i], "panic") EXCEPT !.pc = "panicked"]]
            /\ traderLock' = None
    /\ UNCHANGED <<clock, policy, reserves, cache, cacheLock,
                   zset, amounts, sched, lastStore, handled, owed,
                   payload, decoded, stream, client>>

\* pump_buy lines 155-175 and snipe_token lines 260-276: the submission
\* answers; success leads to the store, failure ends the snipe.
TaskBuyDone(i, ok) ==
    /\ tasks[i].pc = "buy_send"
    /\ IF ok
       THEN /\ tasks' = [tasks EXCEPT ![i].pc = "store", ![i].subs = @ + 1]
            /\ handled' = handled \ {tasks[i].mint}
            /\ sched' = IF \E j \in 1..Len(sched.batch) : sched.batch[j] = tasks[i].mint
                        THEN [sched EXCEPT !.rebought = @ \cup {tasks[i].mint}]
                        ELSE sched
            /\ UNCHANGED traderLock
       ELSE /\ tasks' = [tasks EXCEPT ![i] =
                           DoneTask([tasks[i] EXCEPT !.subs = @ + 1], "err_buy")]
            /\ traderLock' = None
            /\ UNCHANGED <<handled, sched>>
    /\ UNCHANGED <<clock, policy, reserves, cache, cacheLock,
                   zset, amounts, lastStore, owed,
                   payload, decoded, stream, client>>

\* snipe_token line 266: store_mint_with_amount, then the guard is dropped.
TaskStore(i, outcome) ==
    /\ tasks[i].pc = "store"
    /\ zset' = StoreZset(zset, tasks[i].mint, clock, policy.delay, outcome)
    /\ amounts' = StoreAmounts(amounts, tasks[i].mint, tasks[i].amount, outcome)
    /\ tasks' = [tasks EXCEPT ![i] =
                   DoneTask(tasks[i], IF outcome = "ok" THEN "ok" ELSE "err_store")]
    /\ traderLock' = None
    /\ lastStore' =
         IF outcome = "zadd_err" THEN lastStore
         ELSE [lastStore EXCEPT ![tasks[i].mint] =
                 Some([due |-> clock + policy.delay,
                       amount |-> tasks[i].amount,
                       full |-> (outcome = "ok")])]
    /\ owed' =
         IF outcome = "zadd_err" THEN owed
         ELSE [owed EXCEPT ![tasks[i].mint] = Some(clock + policy.delay)]
    /\ UNCHANGED <<clock, policy, reserves, cache, cacheLock, sched, handled,
                   payload, decoded, stream, client>>

\* -------------------------------------------------------------- scheduler
\* The loop reaches sleep(1 s): the iteration's locals are dropped.
SchedSleep(s, now) ==
    [InitSched EXCEPT !.pc = "sleep", !.wake = now + SleepTicks]

\* Faulty variant of SchedAdvance: a failed sell is submitted again.
SchedAdvanceRetries(s, now) ==
    IF s.sres = "err"
    THEN [s EXCEPT !.pc = "sell_send"]
    ELSE IF s.idx < Len(s.batch)
         THEN [s EXCEPT !.pc = "get_amount", !.idx = @ + 1, !.tx = None,
                        !.own = 0, !.amount = 0, !.subs = 0, !.sres = "none"]
         ELSE [InitSched EXCEPT !.pc = "sleep", !.wake = now + SleepTicks]

\* Faulty variant of SchedAdvance: the accessor is called again for every
\* further mint of the batch.
SchedAdvanceRefetches(s, now) ==
    IF s.idx < Len(s.batch)
    THEN [s EXCEPT !.pc = "cache_get", !.batch = SubSeq(@, 2, Len(@)),
                   !.popped = SubSeq(@, 2, Len(@)), !.tx = None,
                   !.own = 0, !.amount = 0, !.subs = 0, !.sres = "none"]
    ELSE SchedSleep(s, now)

\* The loop moves to the next popped mint, or to the sleep after the last.
SchedAdvance(s, now) ==
    IF s.idx < Len(s.batch)
    THEN [s EXCEPT !.pc = "get_amount", !.idx = @ + 1, !.tx = None,
                   !.own = 0, !.amount = 0, !.subs = 0, !.sres = "none"]
    ELSE SchedSleep(s, now)

\* get_mints_to_sell (line 118): ZRANGEBYSCORE 0..now under the connection
\* lock; an empty answer or an error ends the iteration.
SchedRead(ok) ==
    /\ sched.pc = "pop_read"
    /\ LET ready == ZRangeByScore(zset, 0, clock)
       IN sched' =
            IF ok /\ ready # <<>>
            THEN [sched EXCEPT !.pc = "pop_remove", !.batch = ready,
                               !.readAt = clock,
                               !.popped = [j \in 1..Len(ready) |-> lastStore[ready[j]]]]
            ELSE SchedSleep(sched, clock)
    /\ UNCHANGED <<clock, policy, reserves, tasks, traderLock, cache, cacheLock,
                   zset, amounts, lastStore, handled, owed,
                   payload, decoded, stream, client>>

\* get_and_remove_mints_to_sell lines 124-138: the lock is taken again and
\* the members read are removed one by one; the first k ZREMs succeed, and
\* with k < Len(batch) the next one fails and the error is returned.
SchedRemove(k) ==
    /\ sched.pc = "pop_remove"
    /\ k \in 0..Len(sched.batch)
    /\ zset' = ZRemAll(zset, sched.batch, k)
    /\ sched' =
         IF k = Len(sched.batch)
         THEN [sched EXCEPT !.pc = "cache_get"]
         ELSE SchedSleep(sched, clock)
    /\ lastStore' = [m \in Mints |->
                       IF \E j \in 1..k : sched.batch[j] = m
                       THEN None ELSE lastStore[m]]
    /\ UNCHANGED <<clock, policy, reserves, tasks, traderLock, cache, cacheLock,
                   amounts, handled, owed, payload, decoded, stream, client>>

\* Line 103: one accessor call for the batch.
SchedCacheBegin ==
    /\ sched.pc = "cache_get"
    /\ cacheLock = None
    /\ IF CacheValid(cache, clock)
       THEN /\ sched' = [sched EXCEPT !.pc = "get_amount", !.idx = 1,
                                      !.bh = Some(Unwrap(cache).hash),
                                      !.nfetch = 0, !.calls = @ + 1]
            /\ UNCHANGED cacheLock
       ELSE /\ sched' = [sched EXCEPT !.pc = "cache_fetch", !.nfetch = 1,
                                      !.calls = @ + 1]
            /\ cacheLock' = Some(SchedId)
    /\ UNCHANGED <<clock, policy, reserves, tasks, traderLock, cache,
                   zset, amounts, lastStore, handled, owed,
                   payload, decoded, stream, client>>

SchedCacheFetchDone(ok) ==
    /\ sched.pc = "cache_fetch"
    /\ cacheLock' = None
    /\ IF ok
       THEN /\ cache' = CacheStore(LedgerHash(clock), clock)
            /\ sched' = [sched EXCEPT !.pc = "get_amount", !.idx = 1,
                                      !.bh = Some(LedgerHash(clock))]
       ELSE /\ cache' = FetchFailure(cache).slot
            /\ sched' = [sched EXCEPT !.pc = "get_amount", !.idx = 1,
                                      !.bh = FetchFailure(cache).ret]
    /\ UNCHANGED <<clock, policy, reserves, tasks, traderLock,
                   zset, amounts, lastStore, handled, owed,
                   payload, decoded, stream, client>>

\* Lines 118-173: get_mint_amount answers; Ok leads into pump_sell with the
\* recorded or the estimated amount, Err skips the mint.
SchedGetAmount(ok) ==
    /\ sched.pc = "get_amount"
    /\ LET m == sched.batch[sched.idx]
       IN IF ok
          THEN /\ sched' = AfterCache(
                             [sched EXCEPT !.amount = SellAmount(amounts, m)],
                             sched.bh, "sell_send", "sell_fetch")
               /\ UNCHANGED handled
          ELSE /\ sched' = SchedAdvance(sched, clock)
               /\ handled' = handled \cup ({m} \ sched.rebought)
    /\ UNCHANGED <<clock, policy, reserves, tasks, traderLock, cache, cacheLock,
                   zset, amounts, lastStore, owed,
                   payload, decoded, stream, client>>

\* pump_sell lines 260-266: the executor's own fetch; unwrap() panics on an
\* error, which ends the auto-sell task.
SchedOwnFetchDone(ok) ==
    /\ sched.pc = "sell_fetch"
    /\ sched' =
         IF ok
         THEN [sched EXCEPT !.pc = "sell_send", !.tx = Some(LedgerHash(clock)),
                            !.own = @ + 1]
         ELSE [sched EXCEPT !.pc = "panicked", !.own = @ + 1]
    /\ UNCHANGED <<clock, policy, reserves, tasks, traderLock, cache, cacheLock,
                   zset, amounts, lastStore, handled, owed,
                   payload, decoded, stream, client>>

\* pump_sell lines 278-298: send_transaction_with_config, submitted once
\* (max_retries 0), answers with a signature or an error.
SchedSellAnswer(ok) ==
    /\ sched.pc = "sell_send"
    /\ sched' = [sched EXCEPT !.pc = "sell_result", !.subs = @ + 1,
                              !.sres = IF ok THEN "ok" ELSE "err"]
    /\ LET m == sched.batch[sched.idx]
       IN owed' = IF owed[m] # None /\ sched.readAt >= Unwrap(owed[m])
                  THEN [owed EXCEPT ![m] = None]
                  ELSE owed
    /\ UNCHANGED <<clock, policy, reserves, tasks, traderLock, cache, cacheLock,
                   zset, amounts, lastStore, handled,
                   payload, decoded, stream, client>>

\* The loop's lines 130-132 and 167-169: a failure is printed, and the loop
\* goes on to the next mint either way.
SchedSellDone ==
    /\ sched.pc = "sell_result"
    /\ sched' = SchedAdvance(sched, clock)
    /\ handled' = handled \cup ({sched.batch[sched.idx]} \ sched.rebought)
    /\ UNCHANGED <<clock, policy, reserves, tasks, traderLock, cache, cacheLock,
                   zset, amounts, lastStore, owed,
                   payload, decoded, stream, client>>

\* start lines 192-197: the outer task's await of the sell task returns the
\* JoinError of the panic; it is printed and the outer task returns Ok(()).
SellTaskJoined ==
    /\ sched.pc = "panicked"
    /\ sched' = [sched EXCEPT !.pc = "joined", !.result = "ok"]
    /\ UNCHANGED <<clock, policy, reserves, tasks, traderLock, cache, cacheLock,
                   zset, amounts, lastStore, handled, owed,
                   payload, decoded, stream, client>>

\* Line 187: the sleep is over.
SchedWake ==
    /\ sched.pc = "sleep"
    /\ clock >= sched.wake
    /\ sched' = [sched EXCEPT !.pc = "pop_read", !.wake = 0]
    /\ UNCHANGED <<clock, policy, reserves, tasks, traderLock, cache, cacheLock,
                   zset, amounts, lastStore, handled, owed,
                   payload, decoded, stream, client>>

\* ---------------------------------------------------------- specification
\* The trading subsystem: snipe tasks, the auto-sell loop, the clock.
Trading ==
    \/ Tick
    \/ \E i \in TaskIds : TaskShouldSnipe(i)
    \/ \E i \in TaskIds : TaskSnipeStart(i)
    \/ \E i \in TaskIds : TaskCacheBegin(i)
    \/ \E i \in TaskIds, ok \in BOOLEAN : TaskCacheFetchDone(i, ok)
    \/ \E i \in TaskIds, ok \in BOOLEAN : TaskOwnFetchDone(i, ok)
    \/ \E i \in TaskIds, ok \in BOOLEAN : TaskBuyDone(i, ok)
    \/ \E i \in TaskIds, o \in {"ok", "zadd_err", "hset_err"} : TaskStore(i, o)
    \/ \E ok \in BOOLEAN : SchedRead(ok)
    \/ \E k \in 0..Cardinality(Mints) : SchedRemove(k)
    \/ SchedCacheBegin
    \/ \E ok \in BOOLEAN : SchedCacheFetchDone(ok)
    \/ \E ok \in BOOLEAN : SchedGetAmount(ok)
    \/ \E ok \in BOOLEAN : SchedOwnFetchDone(ok)
    \/ \E ok \in BOOLEAN : SchedSellAnswer(ok)
    \/ SchedSellDone
    \/ SellTaskJoined
    \/ SchedWake

\* The whole program: the processor feeds the trading subsystem.
Next ==
    \/ \E m \in Mints : CreateEvent(m)
    \/ \E m \in Mints, t \in TokenAmounts, s \in SolAmounts : BuyEvent(m, t, s)
    \/ Trading

Spec == Init /\ [][Next]_vars

\* The trading subsystem entered through its public functions: one snipe
\* task whose captured mint, quote amount and f64 price are arbitrary, under
\* an arbitrary policy (set_price_range, set_sell_delay).
ApiPolicies ==
    { [min |-> a, max |-> b, buy |-> 10, delay |-> d] :
        a \in {50, 300}, b \in {50, 300}, d \in {0, 1} }
ApiSolAmounts == {49, 50, 300, 301}
ApiPrices ==
    { Price(0 - 1, 1), Price(0, 1), Price(0, 0), Price(1, 0),
      Price(InitialVirtualSolReserves, InitialVirtualTokenReserves),
      DefaultPrice }

InitApi ==
    /\ clock = 0
    /\ policy \in ApiPolicies
    /\ reserves = [m \in Mints |-> None]
    /\ \E m \in Mints, s \in ApiSolAmounts, p \in ApiPrices :
         tasks = [i \in TaskIds |->
                    IF i = 1
                    THEN [IdleTask EXCEPT !.pc = "spawned", !.mint = m,
                                          !.sol = s, !.price = p]
                    ELSE IdleTask]
    /\ traderLock = None
    /\ cache = None
    /\ cacheLock = None
    /\ zset = {}
    /\ amounts = [m \in Mints |-> None]
    /\ sched = InitSched
    /\ lastStore = [m \in Mints |-> None]
    /\ handled = {}
    /\ owed = [m \in Mints |-> None]
    /\ payload = <<>>
    /\ decoded = None
    /\ stream = InitStream
    /\ client = InitClient

SpecApi == InitApi /\ [][Trading]_vars

\* The reserve tracker of the processor on its own: creation and buy events
\* whose amounts range over the whole width of a u64, from reserves the
\* tracker can hold (the initial ones, a base reserve at or next to the
\* maximum after large buys, an asset reserve bought down to 1).
TrackerSolReserves == {InitialVirtualSolReserves, MaxU64 - 1, MaxU64}
TrackerTokenReserves == {1, InitialVirtualTokenReserves}
TrackerSolAmounts == {0, 1, 50, MaxU64}
TrackerTokenAmounts ==
    {0, 1, 34, InitialVirtualTokenReserves, InitialVirtualTokenReserves + 1,
     MaxU64}

InitTracker ==
    /\ clock = 0
    /\ policy \in Policies
    /\ reserves \in [Mints -> {None} \cup
                       { Some([sol |-> a, tok |-> b]) :
                           a \in TrackerSolReserves, b \in TrackerTokenReserves }]
    /\ tasks = [i \in TaskIds |-> IdleTask]
    /\ traderLock = None
    /\ cache = None
    /\ cacheLock = None
    /\ zset = {}
    /\ amounts = [m \in Mints |-> None]
    /\ sched = InitSched
    /\ lastStore = [m \in Mints |-> None]
    /\ handled = {}
    /\ owed = [m \in Mints |-> None]
    /\ payload = <<>>
    /\ decoded = None
    /\ stream = InitStream
    /\ client = InitClient

NextTracker ==
    \/ \E m \in Mints : CreateEvent(m)
    \/ \E m \in Mints, t \in TrackerTokenAmounts, s \in TrackerSolAmounts :
         BuyEvent(m, t, s)

SpecTracker == InitTracker /\ [][NextTracker]_vars

\* The trading subsystem with two snipes dispatched at once, collaborators
\* that answer without error, and fair scheduling of every task.  The clock
\* does not stop: once it shows MaxTime, a further tick keeps the reading and
\* moves every recorded time one tick into the past instead (times already
\* at 0 stay there, which keeps them due, expired and not later than any
\* other).
Dec(t) == IF t > 0 THEN t - 1 ELSE 0
DecHash(h) == IF h > LedgerHash(0) THEN h - 1 ELSE h
DecOpt(o) == IF o = None THEN None ELSE Some(Dec(Unwrap(o)))
DecHashOpt(o) == IF o = None THEN None ELSE Some(DecHash(Unwrap(o)))
DecStore(o) == IF o = None THEN None ELSE Some([Unwrap(o) EXCEPT !.due = Dec(@)])

Rebase ==
    /\ clock = MaxTime
    /\ clock' = clock
    /\ zset' = {<<e[1], Dec(e[2])>> : e \in zset}
    /\ cache' = IF cache = None THEN None
                ELSE Some([hash |-> DecHash(Unwrap(cache).hash),
                           ts |-> Dec(Unwrap(cache).ts)])
    /\ tasks' = [i \in TaskIds |->
                   [tasks[i] EXCEPT !.bh = DecHashOpt(@), !.tx = DecHashOpt(@)]]
    /\ sched' = [sched EXCEPT !.bh = DecHashOpt(@), !.tx = DecHashOpt(@),
                              !.readAt = Dec(@), !.wake = Dec(@),
                              !.popped = [j \in 1..Len(@) |-> DecStore(@[j])]]
    /\ lastStore' = [m \in Mints |-> DecStore(lastStore[m])]
    /\ owed' = [m \in Mints |-> DecOpt(owed[m])]
    /\ UNCHANGED <<policy, reserves, traderLock, cacheLock, amounts, handled,
                   payload, decoded, stream, client>>

InitLive ==
    /\ clock = 0
    /\ policy \in {p \in Policies : p.min <= p.max}
    /\ reserves = [m \in Mints |-> None]
    /\ \E f \in [TaskIds -> Mints] :
         tasks = [i \in TaskIds |->
                    [IdleTask EXCEPT !.pc = "spawned", !.mint = f[i],
                                     !.sol = policy.min,
                                     !.price = TokenPrice(reserves, f[i])]]
    /\ traderLock = None
    /\ cache = None
    /\ cacheLock = None
    /\ zset = {}
    /\ amounts = [m \in Mints |-> None]
    /\ sched = InitSched
    /\ lastStore = [m \in Mints |-> None]
    /\ handled = {}
    /\ owed = [m \in Mints |-> None]
    /\ payload = <<>>
    /\ decoded = None
    /\ stream = InitStream
    /\ client = InitClient

TaskStepLive(i) ==
    \/ TaskShouldSnipe(i)
    \/ TaskSnipeStart(i)
    \/ TaskCacheBegin(i)
    \/ TaskCacheFetchDone(i, TRUE)
    \/ TaskBuyDone(i, TRUE)
    \/ TaskStore(i, "ok")

SchedStepLive ==
    \/ SchedRead(TRUE)
    \/ SchedRemove(Len(sched.batch))
    \/ SchedCacheBegin
    \/ SchedCacheFetchDone(TRUE)
    \/ SchedGetAmount(TRUE)
    \/ SchedSellAnswer(TRUE)
    \/ SchedSellDone
    \/ SchedWake

NextLive ==
    \/ Tick
    \/ Rebase
    \/ \E i \in TaskIds : TaskStepLive(i)
    \/ SchedStepLive

SpecLive ==
    /\ InitLive
    /\ [][NextLive]_vars
    /\ WF_vars(Tick \/ Rebase)
    /\ \A i \in TaskIds : WF_vars(TaskStepLive(i))
    /\ WF_vars(SchedStepLive)

\* ---------------------------------------------------------------- decoder
\* parse_instruction_data (src/src/instruction/mod.rs).  A payload is a
\* sequence of bytes, a String the sequence of its UTF-8 bytes, a Pubkey a
\* sequence of 32 bytes.  Offsets are 0-based as in the source; data[a..b]
\* is Slice(data, a, b).
Bytes == 0..255
CREATE_EVENT_DISCRIMINATOR == <<24, 30, 200, 40, 5, 28, 7, 119>>
BUY_EVENT_DISCRIMINATOR == <<102, 6, 61, 18, 1, 218, 235, 234>>

Slice(data, a, b) == SubSeq(data, a + 1, b)
\* Pubkey::default()
PubkeyDefault == [i \in 1..32 |-> 0]

\* uN::from_le_bytes.  High bytes that are zero are not multiplied out, so
\* that the values met here stay within the model checker's integers.
RECURSIVE FromLeBytes(_)
FromLeBytes(b) ==
    IF b = <<>> THEN 0
    ELSE IF \A k \in 2..Len(b) : b[k] = 0 THEN b[1]
    ELSE b[1] + 256 * FromLeBytes(Tail(b))

\* String::from_utf8 accepts b: the well-formed UTF-8 byte sequences.
Continuation(x) == 128 <= x /\ x <= 191
RECURSIVE Utf8Valid(_)
Utf8Valid(b) ==
    IF b = <<>> THEN TRUE
    ELSE IF b[1] < 128 THEN Utf8Valid(Tail(b))
    ELSE IF 194 <= b[1] /\ b[1] <= 223
    THEN Len(b) >= 2 /\ Continuation(b[2]) /\ Utf8Valid(SubSeq(b, 3, Len(b)))
    ELSE IF 224 <= b[1] /\ b[1] <= 239
    THEN /\ Len(b) >= 3
         /\ Continuation(b[2]) /\ Continuation(b[3])
         /\ b[1] = 224 => b[2] >= 160
         /\ b[1] = 237 => b[2] <= 159
         /\ Utf8Valid(SubSeq(b, 4, Len(b)))
    ELSE IF 240 <= b[1] /\ b[1] <= 244
    THEN /\ Len(b) >= 4
         /\ Continuation(b[2]) /\ Continuation(b[3]) /\ Continuation(b[4])
         /\ b[1] = 240 => b[2] >= 144
         /\ b[1] = 244 => b[2] <= 143
         /\ Utf8Valid(SubSeq(b, 5, Len(b)))
    ELSE FALSE

\* The three outcomes of a call: Ok(..), Err(..) and a panic.  arm is the
\* match arm that produced the outcome.
NoResult ==
    [kind |-> "err", arm |-> "none", type |-> "", name |-> <<>>,
     symbol |-> <<>>, uri |-> <<>>, user |-> <<>>, amount |-> 0,
     max_sol_cost |-> 0, error |-> ""]
Err(arm, e) == [NoResult EXCEPT !.arm = arm, !.error = e]
Panic(arm, e) == [NoResult EXCEPT !.kind = "panic", !.arm = arm, !.error = e]
OkCreate(arm, name, symbol, uri, user) ==
    [NoResult EXCEPT !.kind = "ok", !.arm = arm, !.type = "CreateEvent",
                     !.name = name, !.symbol = symbol, !.uri = uri,
                     !.user = user]
OkBuy(arm, amount, max_sol_cost) ==
    [NoResult EXCEPT !.kind = "ok", !.arm = arm, !.type = "Buy",
                     !.amount = amount, !.max_sol_cost = max_sol_cost]

\* One length-prefixed string read at offset, as lines 72-82 read the name:
\* the u32 length, the bytes, from_utf8.  what names the field in the error.
ReadString(data, offset, what) ==
    IF offset + 4 > Len(data)
    THEN [ok |-> FALSE, error |-> "Insufficient data for " \o what \o " length"]
    ELSE LET len == FromLeBytes(Slice(data, offset, offset + 4))
         IN IF offset + 4 + len > Len(data)
            THEN [ok |-> FALSE, error |-> "Insufficient data for " \o what]
            ELSE IF ~Utf8Valid(Slice(data, offset + 4, offset + 4 + len))
            THEN [ok |-> FALSE, error |-> "invalid utf-8 sequence"]
            ELSE [ok |-> TRUE,
                  value |-> Slice(data, offset + 4, offset + 4 + len),
                  next |-> offset + 4 + len]

\* The three strings of a creation payload read one after the other from
\* offset 8: the fields, and the offset behind the URI.
ReadStrings(data) ==
    LET n == ReadString(data, 8, "name")
    IN IF ~n.ok THEN n
       ELSE LET s == ReadString(data, n.next, "symbol")
            IN IF ~s.ok THEN s
               ELSE LET u == ReadString(data, s.next, "URI")
                    IN IF ~u.ok THEN u
                       ELSE [ok |-> TRUE, name |-> n.value,
                             symbol |-> s.value, uri |-> u.value,
                             next |-> u.next]

\* CreateArgs::try_from_slice(&data[8..]) is Ok: Borsh reads the three
\* strings and rejects input of which bytes are left unread.
BorshCreateOk(data) ==
    ReadStrings(data).ok /\ ReadStrings(data).next = Len(data)
\* BuyArgs::try_from_slice(&data[8..]) is Ok: two u64 and nothing else.
BorshBuyOk(data) == Len(data) = 24

\* Lines 48-118: the arm of CREATE_EVENT_DISCRIMINATOR.
\* Lines 50-66: with Borsh's Ok the creator is cut from the end of the
\* payload; data.len() - 32 is computed in usize, and with fewer than 32
\* bytes it panics on the subtraction (overflow checks on) or, wrapped
\* around, on the slice whose start then lies behind its end (checks off).
\* Lines 68-117: otherwise the strings are read by hand and 32 bytes behind
\* them are the creator.
StrictCreate(data) ==
    LET r == ReadStrings(data)
    IN IF BorshCreateOk(data)
       THEN IF Len(data) < 32
            THEN Panic("create", "user_offset out of range")
            ELSE LET user_offset == Len(data) - 32
                 IN OkCreate("create", r.name, r.symbol, r.uri,
                             IF user_offset >= 8 /\ user_offset + 32 <= Len(data)
                             THEN Slice(data, user_offset, user_offset + 32)
                             ELSE PubkeyDefault)
       ELSE IF ~r.ok THEN Err("create", r.error)
       ELSE IF r.next + 32 > Len(data)
       THEN Err("create", "Insufficient data for user pubkey")
       ELSE OkCreate("create", r.name, r.symbol, r.uri,
                     Slice(data, r.next, r.next + 32))

\* Lines 121-141: the arm of BUY_EVENT_DISCRIMINATOR, Borsh first and the
\* two u64 at offsets 8 and 16 otherwise.
StrictBuy(data) ==
    IF BorshBuyOk(data)
    THEN OkBuy("buy", FromLeBytes(Slice(data, 8, 16)),
               FromLeBytes(Slice(data, 16, 24)))
    ELSE IF Len(data) < 24
    THEN Err("buy", "Insufficient data for Buy instruction")
    ELSE OkBuy("buy", FromLeBytes(Slice(data, 8, 16)),
               FromLeBytes(Slice(data, 16, 24)))

\* Lines 145-192: the arm [24, _, ..]: the strings are read by hand and the
\* creator is the default key.
LooseCreate(data) ==
    LET r == ReadStrings(data)
    IN IF ~r.ok THEN Err("create_coin", r.error)
       ELSE OkCreate("create_coin", r.name, r.symbol, r.uri, PubkeyDefault)

\* Faulty variant of LooseBuy: the two fields are read in the wrong order.
LooseBuySwapsFields(data) ==
    IF Len(data) < 24
    THEN Err("buy_tokens", "Insufficient data for BuyTokens instruction")
    ELSE OkBuy("buy_tokens", FromLeBytes(Slice(data, 16, 24)),
               FromLeBytes(Slice(data, 8, 16)))

\* Lines 195-205: the arm [102, _, ..].
LooseBuy(data) ==
    IF Len(data) < 24
    THEN Err("buy_tokens", "Insufficient data for BuyTokens instruction")
    ELSE OkBuy("buy_tokens", FromLeBytes(Slice(data, 8, 16)),
               FromLeBytes(Slice(data, 16, 24)))

\* Faulty variant of MatchArm: the first-byte patterns are tried first.
MatchArmLooseFirst(discriminator) ==
    IF discriminator[1] = 24 THEN "create_coin"
    ELSE IF discriminator[1] = 102 THEN "buy_tokens"
    ELSE IF discriminator = CREATE_EVENT_DISCRIMINATOR THEN "create"
    ELSE IF discriminator = BUY_EVENT_DISCRIMINATOR THEN "buy"
    ELSE "unknown"

\* Faulty variant of MatchArm: the pattern [102, _, ..] is missing.
MatchArmWithoutBuyTokens(discriminator) ==
    IF discriminator = CREATE_EVENT_DISCRIMINATOR THEN "create"
    ELSE IF discriminator = BUY_EVENT_DISCRIMINATOR THEN "buy"
    ELSE IF discriminator[1] = 24 THEN "create_coin"
    ELSE "unknown"

\* Lines 46-207: the arms of the match in the order they are tried.
MatchArm(discriminator) ==
    IF discriminator = CREATE_EVENT_DISCRIMINATOR THEN "create"
    ELSE IF discriminator = BUY_EVENT_DISCRIMINATOR THEN "buy"
    ELSE IF discriminator[1] = 24 THEN "create_coin"
    ELSE IF discriminator[1] = 102 THEN "buy_tokens"
    ELSE "unknown"

\* Faulty variant of TooShort: a payload of 7 bytes passes the check.
TooShortBySeven(data) == Len(data) < 7

\* Line 40: data.len() < 8.
TooShort(data) == Len(data) < 8

\* Lines 39-209.  Line 44 slices data[0..8], which panics on a shorter
\* payload.
parse_instruction_data(data) ==
    IF TooShort(data) THEN Err("none", "Instruction data too short")
    ELSE IF Len(data) < 8 THEN Panic("none", "range end index 8 out of range")
    ELSE LET arm == MatchArm(Slice(data, 0, 8))
         IN CASE arm = "create" -> StrictCreate(data)
              [] arm = "buy" -> StrictBuy(data)
              [] arm = "create_coin" -> LooseCreate(data)
              [] arm = "buy_tokens" -> LooseBuy(data)
              [] OTHER -> Err("unknown", "Unknown instruction data")

\* The payloads handed to the decoder: any of the discriminators in front
\* of a body made of three length-prefixed strings or of two u64, followed
\* by some further bytes, and every payload cut short at any length.
U32Le(n) ==
    <<n % 256, (n \div 256) % 256, (n \div 65536) % 256, (n \div 16777216) % 256>>
U64Le(n) == U32Le(n) \o <<0, 0, 0, 0>>
Borsh(str) == U32Le(Len(str)) \o str
Rep(x, n) == [i \in 1..n |-> x]
\* n bytes that differ from each other and from those of the strings.
Trailing(n) == [i \in 1..n |-> 100 + i]

Names == {<<>>, <<97>>, Rep(97, 20), <<255>>}
Symbols == {<<>>, <<98>>}
Uris == {<<>>, Rep(99, 11), <<195, 169>>, <<195>>}
TrailingLens == {0, 1, 31, 32, 33}
CreateBodies ==
    { Borsh(n) \o Borsh(s) \o Borsh(u) \o Trailing(t) :
        n \in Names, s \in Symbols, u \in Uris, t \in TrailingLens }
BuyAmounts == {0, 34, 258, 70000}
BuyCosts == {0, 49, 16777217}
BuyBodies ==
    { U64Le(a) \o U64Le(c) \o Trailing(t) :
        a \in BuyAmounts, c \in BuyCosts, t \in {0, 1} }
BuyDiscriminators ==
    { BUY_EVENT_DISCRIMINATOR, <<102, 0, 0, 0, 0, 0, 0, 0>>,
      <<102, 6, 61, 18, 1, 218, 235, 0>> }
Discriminators ==
    BuyDiscriminators \cup
    { CREATE_EVENT_DISCRIMINATOR, <<24, 0, 0, 0, 0, 0, 0, 0>>,
      <<24, 30, 200, 40, 5, 28, 7, 0>>,
      <<0, 30, 200, 40, 5, 28, 7, 119>>, <<23, 6, 61, 18, 1, 218, 235, 234>> }
\* The bodies put behind a discriminator.  A u64 field read by a buy arm is
\* kept within the model checker's integers: behind a buy discriminator
\* only bodies of two small u64 are put.
Bodies(d) ==
    IF d \in BuyDiscriminators THEN BuyBodies ELSE CreateBodies \cup BuyBodies
CutBodies(d) ==
    { U64Le(34) \o U64Le(49) } \cup
    IF d \in BuyDiscriminators THEN {}
    ELSE { Borsh(<<97>>) \o Borsh(<<98>>) \o Borsh(Rep(99, 11)) \o Trailing(32) }
WholePayloads ==
    UNION { { d \o b : b \in Bodies(d) } : d \in Discriminators }
CutPayloads ==
    UNION { UNION { { SubSeq(d \o b, 1, k) : k \in 0..Len(d \o b) } :
                      b \in CutBodies(d) } :
              d \in Discriminators }
Payloads == WholePayloads \cup CutPayloads

InitDecode ==
    /\ clock = 0
    /\ policy \in Policies
    /\ reserves = [m \in Mints |-> None]
    /\ tasks = [i \in TaskIds |-> IdleTask]
    /\ traderLock = None
    /\ cache = None
    /\ cacheLock = None
    /\ zset = {}
    /\ amounts = [m \in Mints |-> None]
    /\ sched = InitSched
    /\ lastStore = [m \in Mints |-> None]
    /\ handled = {}
    /\ owed = [m \in Mints |-> None]
    /\ payload \in Payloads
    /\ decoded = None
    /\ stream = InitStream
    /\ client = InitClient

\* Line 39: the call returns.
ParseInstructionData ==
    /\ decoded = None
    /\ stream = InitStream
    /\ client = InitClient
    /\ decoded' = Some(parse_instruction_data(payload))
    /\ UNCHANGED <<clock, policy, reserves, tasks, traderLock, cache, cacheLock,
                   zset, amounts, sched, lastStore, handled, owed, payload,
                   stream, client>>

NextDecode == ParseInstructionData

SpecDecode == InitDecode /\ [][NextDecode]_vars

\* ----------------------------------------------------------------- stream
\* main's loop (src/src/main.rs lines 106-141) and process_entries.  A
\* buffer either fails to deserialize or yields its transactions in order;
\* a transaction is its number of signatures, its account keys and its
\* instructions [pid, data], pid being program_id_index (0-based).  The
\* integers in an instruction's payload are taken in the model's units.
TokenCreator == "creator"
PumpProgram == "6EF8rrecthR5Dkzon8Nwu78hRvfCKubJ14M5uBEwF6P"

\* deserialize_entries: Ok(entries) or the bincode error.
deserialize_entries(buffer) ==
    IF buffer.valid THEN Some(buffer.txs) ELSE None

\* Faulty variant of SkipBuffer: a buffer that fails to deserialize ends
\* the loop.
SkipBufferEndsStream(s) == [s EXCEPT !.pc = "ended", !.skipped = @ + 1]

\* Lines 123-125: the error is printed and the loop takes the next message.
SkipBuffer(s) == [s EXCEPT !.buffers = Tail(@), !.skipped = @ + 1]

\* Faulty variant of SkipInstruction: a payload that fails to decode ends
\* the processing of its transaction.
SkipInstructionDropsRest(s) == [s EXCEPT !.instrs = <<>>, !.bad = @ + 1]

\* Lines 75 and 195-203: `if let Ok(..)` has no else; the loop over the
\* instructions goes on.
SkipInstruction(s) == [s EXCEPT !.instrs = Tail(@), !.bad = @ + 1]

\* A panic in process_entries unwinds main: nothing further is processed.
StreamPanic(s, why) == [s EXCEPT !.pc = "panicked", !.why = why]

\* Lines 110-126: the next message of the stream is deserialized.
StreamMessage ==
    /\ stream.pc = "message"
    /\ stream.buffers # <<>>
    /\ LET entries == deserialize_entries(Head(stream.buffers))
       IN stream' =
            IF entries = None
            THEN SkipBuffer(stream)
            ELSE [stream EXCEPT !.pc = "transaction", !.buffers = Tail(@),
                                !.txs = Unwrap(entries)]
    /\ UNCHANGED <<clock, policy, reserves, tasks, traderLock, cache, cacheLock,
                   zset, amounts, sched, lastStore, handled, owed,
                   payload, decoded, client>>

\* process_entries lines 41-51 and process_message_v0 lines 55-63: the next
\* transaction; one without the target key is passed over, one with it has
\* signatures[0], account_keys[1] and account_keys[2] read.
StreamTransaction ==
    /\ stream.pc = "transaction"
    /\ stream' =
         IF stream.txs = <<>>
         THEN [stream EXCEPT !.pc = "message"]
         ELSE LET tx == Head(stream.txs)
              IN IF \A k \in 1..Len(tx.keys) : tx.keys[k] # TokenCreator
                 THEN [stream EXCEPT !.txs = Tail(@)]
                 ELSE IF tx.sigs = 0
                 THEN StreamPanic(stream, "signatures[0]")
                 ELSE IF Len(tx.keys) < 2
                 THEN StreamPanic(stream, "account_keys[1]")
                 ELSE IF Len(tx.keys) < 3
                 THEN StreamPanic(stream, "account_keys[2]")
                 ELSE [stream EXCEPT !.pc = "instruction", !.txs = Tail(@),
                                     !.keys = tx.keys, !.instrs = tx.instrs]
    /\ UNCHANGED <<clock, policy, reserves, tasks, traderLock, cache, cacheLock,
                   zset, amounts, sched, lastStore, handled, owed,
                   payload, decoded, client>>

\* Lines 69-203: the next instruction of the transaction.  The mint is
\* account_keys[1]; an instruction of another program is passed over, one
\* whose payload does not decode is skipped, a CreateEvent or a Buy takes
\* its arm.
StreamInstruction ==
    /\ stream.pc = "instruction"
    /\ IF stream.instrs = <<>>
       THEN /\ stream' = [stream EXCEPT !.pc = "transaction", !.keys = <<>>]
            /\ UNCHANGED <<reserves, tasks>>
       ELSE LET ins == Head(stream.instrs)
                mint == stream.keys[2]
                r == parse_instruction_data(ins.data)
            IN IF ins.pid >= Len(stream.keys)
               THEN /\ stream' = StreamPanic(stream, "account_keys[program_id_index]")
                    /\ UNCHANGED <<reserves, tasks>>
               ELSE IF stream.keys[ins.pid + 1] \notin {TokenCreator, PumpProgram}
               THEN /\ stream' = [stream EXCEPT !.instrs = Tail(@)]
                    /\ UNCHANGED <<reserves, tasks>>
               ELSE IF r.kind = "panic"
               THEN /\ stream' = StreamPanic(stream, "parse_instruction_data")
                    /\ UNCHANGED <<reserves, tasks>>
               ELSE IF r.kind = "err"
               THEN /\ stream' = SkipInstruction(stream)
                    /\ UNCHANGED <<reserves, tasks>>
               ELSE IF r.type = "CreateEvent"
               THEN /\ CreateArm(mint)
                    /\ stream' = [stream EXCEPT !.instrs = Tail(@)]
               ELSE /\ BuyArm(mint, r.amount, r.max_sol_cost)
                    /\ stream' = [stream EXCEPT !.instrs = Tail(@)]
    /\ UNCHANGED <<clock, policy, traderLock, cache, cacheLock,
                   zset, amounts, sched, lastStore, handled, owed,
                   payload, decoded, client>>

\* The streams handed to the loop: one or two buffers, each failing to
\* deserialize or holding one or two transactions.
CreateData ==
    CREATE_EVENT_DISCRIMINATOR \o Borsh(<<97>>) \o Borsh(<<98>>) \o Borsh(<<99>>)
      \o Trailing(32)
BuyData == BUY_EVENT_DISCRIMINATOR \o U64Le(34) \o U64Le(50)
\* Payloads the decoder answers with Err: too short, unknown, no creator.
ErrData ==
    { <<24>>, <<23, 6, 61, 18, 1, 218, 235, 234>>,
      CREATE_EVENT_DISCRIMINATOR \o Borsh(<<97>>) \o Borsh(<<98>>)
        \o Borsh(<<99>>) \o Trailing(1) }
\* The create discriminator and three empty strings.
ShortCreateData ==
    CREATE_EVENT_DISCRIMINATOR \o Borsh(<<>>) \o Borsh(<<>>) \o Borsh(<<>>)

Keys(m) == <<"payer", m, "curve", TokenCreator, "other">>
Ins(pid, data) == [pid |-> pid, data |-> data]
Tx(sigs, keys, instrs) == [sigs |-> sigs, keys |-> keys, instrs |-> instrs]
GoodTxs ==
    { Tx(1, Keys(m), <<Ins(3, d)>>) : m \in Mints, d \in {CreateData, BuyData} }
ErrTxs ==
    { Tx(1, Keys("X"), <<Ins(3, e), Ins(3, d)>>) :
        e \in ErrData, d \in {CreateData, BuyData} }
OtherTxs ==
    { Tx(1, Keys("X"), <<Ins(3, ShortCreateData), Ins(3, BuyData)>>),
      Tx(1, Keys("X"), <<Ins(4, CreateData), Ins(3, BuyData)>>),
      Tx(1, Keys("X"), <<Ins(5, CreateData)>>),
      Tx(1, <<"payer", "X", "curve", "other">>, <<Ins(3, CreateData)>>),
      Tx(1, <<TokenCreator>>, <<>>),
      Tx(1, <<TokenCreator, "X">>, <<>>),
      Tx(0, Keys("X"), <<Ins(3, CreateData)>>) }
Txs == GoodTxs \cup ErrTxs \cup OtherTxs
Buffers ==
    { [valid |-> FALSE, txs |-> <<>>] } \cup
    { [valid |-> TRUE, txs |-> <<t>>] : t \in Txs } \cup
    { [valid |-> TRUE, txs |-> <<t, u>>] : t \in ErrTxs, u \in GoodTxs }
Streams == { <<b>> : b \in Buffers } \cup { <<b, c>> : b, c \in Buffers }

InitEntries ==
    /\ clock = 0
    /\ policy \in Policies
    /\ reserves = [m \in Mints |-> None]
    /\ tasks = [i \in TaskIds |-> IdleTask]
    /\ traderLock = None
    /\ cache = None
    /\ cacheLock = None
    /\ zset = {}
    /\ amounts = [m \in Mints |-> None]
    /\ sched = InitSched
    /\ lastStore = [m \in Mints |-> None]
    /\ handled = {}
    /\ owed = [m \in Mints |-> None]
    /\ payload = <<>>
    /\ decoded = None
    /\ \E bs \in Streams : stream = [InitStream EXCEPT !.buffers = bs]
    /\ client = InitClient

NextEntries == StreamMessage \/ StreamTransaction \/ StreamInstruction

SpecEntries == InitEntries /\ [][NextEntries]_vars

\* ----------------------------------------------------------------- client
\* ShredstreamClient::connect and subscribe_entries (src/src/client/mod.rs).
\* let max_retries = 5;
max_retries == 5

\* Faulty variant of GiveUp: one more attempt is made.
GiveUpLate(retries) == retries > max_retries

\* Lines 30 and 54: retries >= max_retries.
GiveUp(retries) == retries >= max_retries

\* Lines 33 and 57: base_delay * retries, in seconds.
RetryDelay(retries) == 1 * retries

\* The error of the n-th attempt of a call.
AttemptError(call, n) == <<call, n>>

\* Lines 25-38: one connection attempt of connect, called by new or by
\* subscribe_entries (line 62, whose `?` returns connect's error).
ConnectAttempt(ok) ==
    /\ client.pc = "connect"
    /\ client' =
         IF ok
         THEN IF client.op = "connect"
              THEN [client EXCEPT !.pc = "done", !.conns = @ + 1,
                                  !.result = "ok"]
              ELSE [client EXCEPT !.pc = "subscribe", !.conns = @ + 1]
         ELSE IF GiveUp(client.cretries + 1)
         THEN [client EXCEPT !.pc = "done", !.conns = @ + 1,
                             !.cretries = @ + 1, !.result = "err",
                             !.err = AttemptError("connect", client.conns + 1)]
         ELSE [client EXCEPT !.pc = "connect_sleep", !.conns = @ + 1,
                             !.cretries = @ + 1,
                             !.waits = Append(@, RetryDelay(client.cretries + 1))]
    /\ UNCHANGED <<clock, policy, reserves, tasks, traderLock, cache, cacheLock,
                   zset, amounts, sched, lastStore, handled, owed,
                   payload, decoded, stream>>

\* Line 35: the sleep of connect is over.
ConnectWake ==
    /\ client.pc = "connect_sleep"
    /\ client' = [client EXCEPT !.pc = "connect"]
    /\ UNCHANGED <<clock, policy, reserves, tasks, traderLock, cache, cacheLock,
                   zset, amounts, sched, lastStore, handled, owed,
                   payload, decoded, stream>>

\* Lines 46-59: one subscription attempt of subscribe_entries.
SubscribeAttempt(ok) ==
    /\ client.pc = "subscribe"
    /\ client' =
         IF ok
         THEN [client EXCEPT !.pc = "done", !.subs = @ + 1, !.result = "ok"]
         ELSE IF GiveUp(client.retries + 1)
         THEN [client EXCEPT !.pc = "done", !.subs = @ + 1,
                             !.retries = @ + 1, !.result = "err",
                             !.err = AttemptError("subscribe", client.subs + 1)]
         ELSE [client EXCEPT !.pc = "subscribe_sleep", !.subs = @ + 1,
                             !.retries = @ + 1,
                             !.waits = Append(@, RetryDelay(client.retries + 1))]
    /\ UNCHANGED <<clock, policy, reserves, tasks, traderLock, cache, cacheLock,
                   zset, amounts, sched, lastStore, handled, owed,
                   payload, decoded, stream>>

\* Lines 59-62: the sleep is over and connect is called anew.
SubscribeWake ==
    /\ client.pc = "subscribe_sleep"
    /\ client' = [client EXCEPT !.pc = "connect", !.cretries = 0, !.conns = 0]
    /\ UNCHANGED <<clock, policy, reserves, tasks, traderLock, cache, cacheLock,
                   zset, amounts, sched, lastStore, handled, owed,
                   payload, decoded, stream>>

\* A call of connect (by new) or of subscribe_entries (by main) begins.
InitCall ==
    /\ clock = 0
    /\ policy \in Policies
    /\ reserves = [m \in Mints |-> None]
    /\ tasks = [i \in TaskIds |-> IdleTask]
    /\ traderLock = None
    /\ cache = None
    /\ cacheLock = None
    /\ zset = {}
    /\ amounts = [m \in Mints |-> None]
    /\ sched = InitSched
    /\ lastStore = [m \in Mints |-> None]
    /\ handled = {}
    /\ owed = [m \in Mints |-> None]
    /\ payload = <<>>
    /\ decoded = None
    /\ stream = InitStream
    /\ \E op \in {"connect", "subscribe"} :
         client = [InitClient EXCEPT !.op = op, !.pc = op]

NextCall ==
    \/ \E ok \in BOOLEAN : ConnectAttempt(ok)
    \/ ConnectWake
    \/ \E ok \in BOOLEAN : SubscribeAttempt(ok)
    \/ SubscribeWake

\* The runtime polls the call until it returns.
SpecCall == InitCall /\ [][NextCall]_vars /\ WF_vars(NextCall)

\* ------------------------------------------------------------------ claims
Entry(z, m) == {e \in z : e[1] = m}
InRange(pol, x) == pol.min <= x /\ x <= pol.max
StrictlyPositive(p) == p.n > 0
Fresh == cache # None /\ clock - Unwrap(cache).ts < MaxAgeTicks
InSnipe(pc) == pc \in {"cache_get", "cache_fetch", "buy_fetch", "buy_send", "store"}

\* C1: a pending sale for a mint is written only by the snipe whose buy of
\* that mint just returned success, with that buy's amount and the due time
\* now + sell_delay_ms; a failed buy was submitted exactly once and leaves
\* the queue's due times and amounts unchanged.
C1_ScheduleCarriesBuy ==
    [][ /\ \A m \in Mints :
             ((\E e \in zset' \ zset : e[1] = m) \/ amounts'[m] # amounts[m])
               => \E i \in TaskIds :
                    /\ tasks[i].pc = "store" /\ tasks[i].mint = m
                    /\ tasks[i].subs = 1
                    /\ tasks'[i].pc = "done"
                    /\ Entry(zset', m) = {<<m, clock + policy.delay>>}
                    /\ MintAmount(amounts', m) = Some(tasks[i].amount)
        /\ \A i \in TaskIds :
             (tasks[i].pc = "buy_send" /\ tasks'[i].res = "err_buy")
               => tasks'[i].subs = 1 /\ zset' = zset /\ amounts' = amounts
      ]_vars

\* C2: a sell submitted for a popped entry carries the amount recorded by
\* the buy that scheduled the entry, whatever was recorded since the pop.
C2_SellCarriesScheduledAmount ==
    sched.pc = "sell_send"
      => LET s == sched.popped[sched.idx]
         IN (s # None /\ Unwrap(s).full) => sched.amount = Unwrap(s).amount

\* C3: between the read of the ready members and their removal no schedule
\* is written, and a member's schedule leaves the queue only by a pop whose
\* read returned it at or after its due time.
C3_PopIsAtomic ==
    [][ /\ (sched.pc = "pop_remove" /\ sched'.pc = "pop_remove")
             => zset' = zset /\ amounts' = amounts
        /\ \A e \in zset :
             Entry(zset', e[1]) = {}
               => /\ sched.pc = "pop_remove"
                  /\ \E j \in 1..Len(sched.batch) : sched.batch[j] = e[1]
                  /\ e[2] <= sched.readAt
      ]_vars

\* C4: at most one pending sale per mint, and it has the due time and the
\* amount of the last buy that wrote a schedule for the mint.
C4_LastWriteWins ==
    \A m \in Mints :
      /\ Cardinality(Entry(zset, m)) <= 1
      /\ \A e \in Entry(zset, m) :
           /\ lastStore[m] # None
           /\ e[2] = Unwrap(lastStore[m]).due
           /\ MintAmount(amounts, m) = Some(Unwrap(lastStore[m]).amount)

\* C5: once the scheduler has popped and handled a mint, the queue holds
\* neither a due-time entry nor an amount record for it until it is bought
\* again.
C5_HandledSaleRemoved ==
    \A m \in handled : Entry(zset, m) = {} /\ amounts[m] = None

\* C6: should_snipe is true exactly for min <= x <= max, a spawned task goes
\* on to snipe exactly then, and every buy submission is for an observed
\* quote amount within the bounds.
C6_SnipeIffInRange ==
    [][ \A i \in TaskIds :
          /\ tasks[i].pc = "spawned"
               => (ShouldSnipe(policy, tasks[i].sol) <=> InRange(policy, tasks[i].sol))
          /\ (tasks[i].pc = "spawned" /\ tasks'[i].pc # "spawned")
               => /\ (tasks'[i].pc = "wait_lock") <=> InRange(policy, tasks[i].sol)
                  /\ (tasks'[i].pc # "wait_lock")
                       => tasks'[i].pc = "done" /\ tasks'[i].res = "skipped"
          /\ tasks'[i].subs > tasks[i].subs => InRange(policy, tasks[i].sol)
      ]_vars

\* A buy was submitted for a quote amount exactly at the upper bound.
C6_Witness ==
    \E i \in TaskIds :
      /\ tasks[i].pc = "store" /\ tasks[i].subs = 1
      /\ tasks[i].sol = policy.max /\ policy.min < policy.max

C8_NoOwnFetch ==
    /\ \A i \in TaskIds : tasks[i].pc # "buy_fetch"
    /\ sched.pc # "sell_fetch"

\* C8 as amended: the executor fetches for itself only when its caller handed
\* over no reference, and then exactly once; a reference handed over is the
\* one the transaction is built with.
C8_OwnFetchOnlyWithoutReference ==
    /\ \A i \in TaskIds :
         /\ tasks[i].pc = "buy_fetch" => tasks[i].bh = None /\ tasks[i].own = 0
         /\ tasks[i].pc = "buy_send"
              => IF tasks[i].bh # None
                 THEN tasks[i].tx = tasks[i].bh /\ tasks[i].own = 0
                 ELSE tasks[i].tx # None /\ tasks[i].own = 1
    /\ sched.pc = "sell_fetch" => sched.bh = None /\ sched.own = 0
    /\ sched.pc = "sell_send"
         => IF sched.bh # None
            THEN sched.tx = sched.bh /\ sched.own = 0
            ELSE sched.tx # None /\ sched.own = 1

\* The accessor failed and the buy went out on the executor's own fetch.
C8_Witness ==
    \E i \in TaskIds :
      tasks[i].pc = "buy_send" /\ tasks[i].bh = None /\ tasks[i].own = 1

\* C9: a call that finds a value younger than max_age returns that value and
\* issues no fetch, so every call within max_age of a fetch returns the
\* fetch's value.
C9_CachedValueServed ==
    [][ Fresh =>
          /\ \A i \in TaskIds :
               (tasks[i].pc = "cache_get" /\ tasks'[i].pc # "cache_get")
                 => /\ tasks'[i].bh = Some(Unwrap(cache).hash)
                    /\ tasks'[i].nfetch = 0
                    /\ tasks'[i].pc # "cache_fetch"
                    /\ cache' = cache
          /\ (sched.pc = "cache_get" /\ sched'.pc # "cache_get")
               => /\ sched'.bh = Some(Unwrap(cache).hash)
                  /\ sched'.nfetch = 0
                  /\ sched'.pc # "cache_fetch"
                  /\ cache' = cache
      ]_vars

\* A caller came back from the accessor with the cached value, no fetch.
C9_Witness ==
    \/ \E i \in TaskIds :
         /\ tasks[i].pc = "buy_send" /\ tasks[i].nfetch = 0
         /\ cache # None /\ tasks[i].bh = Some(Unwrap(cache).hash)
    \/ /\ sched.pc = "get_amount" /\ sched.nfetch = 0
       /\ cache # None /\ sched.bh = Some(Unwrap(cache).hash)

\* C10: a call that finds the slot empty or its value of age >= max_age
\* issues one fetch and no second one; the value fetched is stored with the
\* time of the store and is the value returned.
C10_MissFetchesOnce ==
    [][ /\ \A i \in TaskIds :
             /\ (tasks[i].pc = "cache_get" /\ tasks'[i].pc # "cache_get" /\ ~Fresh)
                  => /\ tasks'[i].pc = "cache_fetch"
                     /\ tasks'[i].nfetch = 1
                     /\ cache' = cache
             /\ (tasks[i].pc = "cache_fetch" /\ tasks'[i].pc # "cache_fetch")
                  => /\ tasks'[i].pc # "cache_get"
                     /\ tasks'[i].nfetch = 1
                     /\ tasks'[i].bh # None
                          => /\ tasks'[i].bh = Some(LedgerHash(clock))
                             /\ cache' = Some([hash |-> LedgerHash(clock), ts |-> clock])
        /\ (sched.pc = "cache_get" /\ sched'.pc # "cache_get" /\ ~Fresh)
             => /\ sched'.pc = "cache_fetch"
                /\ sched'.nfetch = 1
                /\ cache' = cache
        /\ (sched.pc = "cache_fetch" /\ sched'.pc # "cache_fetch")
             => /\ sched'.pc # "cache_get"
                /\ sched'.nfetch = 1
                /\ sched'.bh # None
                     => /\ sched'.bh = Some(LedgerHash(clock))
                        /\ cache' = Some([hash |-> LedgerHash(clock), ts |-> clock])
      ]_vars

\* The auto-sell loop found an expired value, fetched once, and holds the
\* fetched value, which is the one in the slot.
C10_Witness ==
    /\ sched.pc = "get_amount" /\ sched.nfetch = 1
    /\ clock >= MaxAgeTicks
    /\ sched.bh = Some(LedgerHash(clock))
    /\ cache = Some([hash |-> LedgerHash(clock), ts |-> clock])

\* C11: a refresh never returns the value that was in the slot when it
\* started, and a refresh that returns an error leaves the slot, value and
\* timestamp, as it was; the slot changes only when a value is returned.
C11_FailedFetchKeepsSlot ==
    [][ /\ \A i \in TaskIds :
             (tasks[i].pc = "cache_fetch" /\ tasks'[i].pc # "cache_fetch")
               => /\ cache # None => tasks'[i].bh # Some(Unwrap(cache).hash)
                  /\ tasks'[i].bh = None => cache' = cache
                  /\ cache' # cache => tasks'[i].bh # None
        /\ (sched.pc = "cache_fetch" /\ sched'.pc # "cache_fetch")
             => /\ cache # None => sched'.bh # Some(Unwrap(cache).hash)
                /\ sched'.bh = None => cache' = cache
                /\ cache' # cache => sched'.bh # None
      ]_vars

\* The auto-sell loop's refresh failed: it holds no reference, and the
\* expired value is still in the slot.
C11_Witness ==
    /\ sched.pc = "get_amount" /\ sched.idx = 1
    /\ sched.nfetch = 1 /\ sched.bh = None
    /\ cache # None /\ clock - Unwrap(cache).ts >= MaxAgeTicks

\* C12: the slot only ever holds a value fetched at its timestamp, and a
\* value handed to a caller is either the one that caller's own fetch just
\* produced or the slot's value at an age below max_age.
C12_ReturnedValueFetchedAndFresh ==
    [][ /\ cache # None
             => Unwrap(cache).hash = LedgerHash(Unwrap(cache).ts)
                  /\ Unwrap(cache).ts <= clock
        /\ \A i \in TaskIds :
             (tasks[i].pc \in {"cache_get", "cache_fetch"}
                /\ tasks'[i].pc \notin {"cache_get", "cache_fetch"}
                /\ tasks'[i].bh # None)
               => \/ /\ tasks[i].pc = "cache_fetch" /\ cacheLock = Some(i)
                     /\ tasks'[i].bh = Some(LedgerHash(clock))
                  \/ /\ tasks[i].pc = "cache_get" /\ cache # None
                     /\ tasks'[i].bh = Some(Unwrap(cache).hash)
                     /\ clock - Unwrap(cache).ts < MaxAgeTicks
        /\ (sched.pc \in {"cache_get", "cache_fetch"}
              /\ sched'.pc \notin {"cache_get", "cache_fetch"}
              /\ sched'.bh # None)
             => \/ /\ sched.pc = "cache_fetch" /\ cacheLock = Some(SchedId)
                   /\ sched'.bh = Some(LedgerHash(clock))
                \/ /\ sched.pc = "cache_get" /\ cache # None
                   /\ sched'.bh = Some(Unwrap(cache).hash)
                   /\ clock - Unwrap(cache).ts < MaxAgeTicks
      ]_vars

\* Two concurrent callers: a snipe task is submitting on the value it
\* fetched and the auto-sell loop was handed the same value from the slot.
C12_Witness ==
    \E i \in TaskIds :
      /\ tasks[i].pc = "buy_send" /\ tasks[i].nfetch = 1
      /\ sched.pc = "get_amount" /\ sched.nfetch = 0
      /\ sched.bh # None /\ sched.bh = tasks[i].bh

\* C13: no task holds the cache's slot lock while its fetch is in flight,
\* and none holds the AutoTrader lock while a fetch, a buy submission or a
\* queue write of its snipe is in flight.
C13_NoLockAcrossNetworkCall ==
    /\ \A i \in TaskIds :
         /\ ~(tasks[i].pc = "cache_fetch" /\ cacheLock = Some(i))
         /\ ~(tasks[i].pc \in {"cache_fetch", "buy_fetch", "buy_send", "store"}
               /\ traderLock = Some(i))
    /\ ~(sched.pc = "cache_fetch" /\ cacheLock = Some(SchedId))

\* C15: the processor handles a buy event whatever the snipe tasks are doing:
\* the event's step is enabled whenever a snipe can be dispatched, it takes
\* no lock, touches no other task, and dispatches the snipe and applies the
\* reserve update of a tracked mint in the same step.
C15_IngestionNeverWaits ==
    [][ /\ (\E i \in TaskIds : tasks[i].pc = "idle")
             => \A m \in Mints :
                  ENABLED (\E t \in TokenAmounts, q \in SolAmounts : BuyEvent(m, t, q))
        /\ \A i \in TaskIds :
             (tasks[i].pc = "idle" /\ tasks'[i].pc = "spawned")
               => /\ traderLock' = traderLock /\ cacheLock' = cacheLock
                  /\ sched' = sched
                  /\ \A j \in TaskIds \ {i} : tasks'[j] = tasks[j]
                  /\ LET m == tasks'[i].mint
                     IN reserves[m] # None
                          => /\ reserves'[m] # None
                             /\ Unwrap(reserves'[m]).sol =
                                  SaturatingAdd(Unwrap(reserves[m]).sol, tasks'[i].sol)
      ]_vars

\* A snipe holds the trader's lock in its buy submission, and a later buy
\* event of a tracked mint has been dispatched and applied meanwhile.
C15_Witness ==
    /\ tasks[1].pc = "buy_send" /\ traderLock = Some(1)
    /\ tasks[2].pc = "spawned"
    /\ reserves[tasks[2].mint] # None
    /\ Unwrap(reserves[tasks[2].mint]).sol > InitialVirtualSolReserves

InEntry(pc) == pc \in {"get_amount", "sell_fetch", "sell_send", "sell_result"}
LoopEnded(pc) == pc \in {"panicked", "joined"}

\* C16: when the auto-sell loop has ended, the task returned by start
\* finishes with an error, and from then on no snipe task starts a buy
\* submission.
C16_LoopEndIsFatal ==
    [][ /\ sched'.pc = "joined" => sched'.result = "err"
        /\ LoopEnded(sched.pc)
             => \A i \in TaskIds :
                  ~(tasks[i].pc # "buy_send" /\ tasks'[i].pc = "buy_send")
      ]_vars

\* C17: the auto-sell loop is never ended by a failing collaborator: it is
\* always in an iteration or in its wait.
C17_LoopSurvivesErrors == ~LoopEnded(sched.pc)

\* C19: the loop leaves a popped entry only after a sell for it was
\* submitted and answered, and the sell carries the recorded amount when the
\* amount record exists and the estimated amount when it does not.
C19_EveryPoppedEntrySold ==
    [][ /\ (InEntry(sched.pc) /\ (~InEntry(sched'.pc) \/ sched'.idx # sched.idx))
             => sched.pc = "sell_result" /\ sched.subs = 1
        /\ (sched.pc = "get_amount" /\ sched'.pc \in {"sell_fetch", "sell_send"})
             => LET rec == MintAmount(amounts, sched.batch[sched.idx])
                IN sched'.amount =
                     IF rec # None THEN Unwrap(rec)
                     ELSE SnipeAmount(FallbackBuySol, DefaultPrice)
      ]_vars

\* C20 as stated: one submission per popped entry at most, and once a failed
\* sell has been handled the queue holds no due-time entry for its mint.
C20_FailedSellDropped ==
    [][ /\ sched'.subs <= 1
        /\ (sched.pc = "sell_result" /\ sched.sres = "err"
              /\ sched'.pc # "sell_result")
             => Entry(zset', sched.batch[sched.idx]) = {}
      ]_vars

\* C20 as amended: one submission per popped entry at most; handling a failed
\* sell writes nothing to the queue and moves the loop on, and a due-time
\* entry the queue then holds for the mint was written by a store that ran
\* after the pop removed the entry sold.
C20_FailedSellNotRequeued ==
    [][ /\ sched'.subs <= 1
        /\ (sched.pc = "sell_result" /\ sched.sres = "err"
              /\ sched'.pc # "sell_result")
             => /\ zset' = zset /\ amounts' = amounts
                /\ sched'.pc \in {"get_amount", "sleep"}
                /\ sched'.pc = "get_amount" => sched'.idx = sched.idx + 1
                /\ Entry(zset', sched.batch[sched.idx]) # {}
                     => lastStore[sched.batch[sched.idx]] # None
      ]_vars

\* A sell was submitted once and failed; its entry is no longer queued.
C20_Witness ==
    /\ sched.pc = "sell_result" /\ sched.sres = "err" /\ sched.subs = 1
    /\ Entry(zset, sched.batch[sched.idx]) = {}

InBuy(pc) == pc \in {"buy_fetch", "buy_send"}
TwoSubmitting ==
    \E i, j \in TaskIds : i # j /\ InBuy(tasks[i].pc) /\ InBuy(tasks[j].pc)

C18_EveryBuySold ==
    \A m \in Mints : (owed[m] # None) ~> (owed[m] = None)


\* C21: in one iteration of the auto-sell loop the accessor of the
\* BlockhashCache is called exactly once when the popped batch is non-empty
\* and not at all when the pop returned nothing; every sell of the batch is
\* handed the value that one call returned, and builds on it when it is a
\* block reference.
C21_OneAccessorCallPerBatch ==
    /\ [](/\ sched.pc \in {"pop_read", "pop_remove", "cache_get", "sleep"}
             => sched.calls = 0
          /\ sched.pc = "cache_fetch" \/ InEntry(sched.pc)
             => sched.calls = 1 /\ sched.batch # <<>>)
    /\ [][/\ sched'.calls # sched.calls /\ sched'.calls # 0
             => sched.pc = "cache_get" /\ sched.batch # <<>>
          /\ InEntry(sched.pc) /\ InEntry(sched'.pc)
             => sched'.bh = sched.bh
          /\ sched.pc = "get_amount" /\ sched'.pc = "sell_send"
             => sched.bh # None /\ sched'.tx = sched.bh
          /\ sched.pc = "get_amount" /\ sched'.pc = "sell_fetch"
             => sched.bh = None]_vars
\* The second mint of a batch is being sold on the value the one call returned.
C21_Witness ==
    /\ sched.pc = "sell_send"
    /\ sched.idx = 2
    /\ sched.calls = 1
    /\ sched.bh # None
    /\ sched.tx = sched.bh

\* The snipe task i is spawned by this step, for a mint that is tracked.
TradeStep(i) ==
    /\ tasks[i].pc = "idle"
    /\ tasks'[i].pc = "spawned"
    /\ reserves[tasks'[i].mint] # None

\* C22: a buy event on a tracked mint takes the base reserve to
\* min(old + quote amount, u64::MAX) and the asset reserve to
\* old - asset amount when the asset amount does not exceed it, leaving it at
\* its old value otherwise; no reserve ever leaves the range of a u64.
C22_ReservesSaturate ==
    /\ [](\A m \in Mints : reserves[m] # None =>
              /\ Unwrap(reserves[m]).sol \in 0..MaxU64
              /\ Unwrap(reserves[m]).tok \in 0..MaxU64)
    /\ [][\A i \in TaskIds : TradeStep(i) =>
             LET old == Unwrap(reserves[tasks'[i].mint])
                 new == Unwrap(reserves'[tasks'[i].mint])
                 quote_amount == tasks'[i].sol
                 asset_amount == tasks'[i].tok
             IN /\ new.sol = IF old.sol + quote_amount < MaxU64
                              THEN old.sol + quote_amount ELSE MaxU64
                /\ new.tok = IF asset_amount <= old.tok
                              THEN old.tok - asset_amount ELSE old.tok]_vars
\* Two events on one mint: the first filled the base reserve to the maximum
\* and bought the asset reserve down, the second asked for more than is left.
C22_Witness ==
    /\ tasks[1].pc = "spawned" /\ tasks[2].pc = "spawned"
    /\ tasks[1].mint = tasks[2].mint
    /\ reserves[tasks[1].mint] # None
    /\ tasks[1].sol = MaxU64 /\ tasks[1].tok = 34
    /\ tasks[2].sol = 50 /\ tasks[2].tok = InitialVirtualTokenReserves + 1
    /\ Unwrap(reserves[tasks[1].mint]) =
         [sol |-> MaxU64, tok |-> InitialVirtualTokenReserves - 34]

InitialReserves ==
    [sol |-> InitialVirtualSolReserves, tok |-> InitialVirtualTokenReserves]

\* C23: an entry appears only with the initial reserves (30 SOL and
\* 1.073 * 10^15 raw tokens), by a step that touches no other entry and
\* dispatches nothing; an entry that exists changes only by a buy event for
\* its mint, so a further creation event leaves it, reserves accumulated
\* from trades included, and every other entry as they were.
C23_CreationIdempotent ==
    [][\A m \in Mints :
         /\ reserves[m] = None /\ reserves'[m] # None
            => /\ reserves'[m] = Some(InitialReserves)
               /\ \A o \in Mints \ {m} : reserves'[o] = reserves[o]
               /\ tasks' = tasks
         /\ reserves[m] # None /\ reserves'[m] # reserves[m]
            => \E i \in TaskIds : TradeStep(i) /\ tasks'[i].mint = m]_vars
\* Both mints were created, and one has accumulated the amounts of a buy.
C23_Witness ==
    /\ reserves["X"] = Some(InitialReserves)
    /\ reserves["Y"] # None
    /\ Unwrap(reserves["Y"]).sol > InitialVirtualSolReserves
    /\ Unwrap(reserves["Y"]).tok < InitialVirtualTokenReserves

\* p and q are the same quotient (finite, non-zero denominators).
SamePrice(p, q) == p.n * q.d = q.n * p.d

\* C24: the price handed to the snipe task of a buy event on a tracked mint
\* is the quotient of the reserves as they are after the event's quote and
\* asset amounts were applied.
C24_PriceFromUpdatedReserves ==
    [][\A i \in TaskIds : TradeStep(i) =>
         SamePrice(tasks'[i].price,
                   Price(Unwrap(reserves'[tasks'[i].mint]).sol,
                         Unwrap(reserves'[tasks'[i].mint]).tok))]_vars

\* C25: a buy event for a mint without an entry creates no entry and
\* changes no entry, and the snipe task it dispatches carries the fixed
\* fallback price.
C25_UntrackedTradeUsesFallback ==
    [][\A i \in TaskIds :
         tasks[i].pc = "idle" /\ tasks'[i].pc = "spawned"
           /\ reserves[tasks'[i].mint] = None
         => /\ reserves' = reserves
            /\ tasks'[i].price = DefaultPrice]_vars
\* A snipe for an untracked mint is submitting its buy, sized by the
\* fallback price.
C25_Witness ==
    \E i \in TaskIds :
        /\ tasks[i].pc = "buy_send"
        /\ reserves[tasks[i].mint] = None
        /\ tasks[i].price = DefaultPrice
        /\ tasks[i].amount = SnipeAmount(policy.buy, DefaultPrice)

\* C26: a payload of fewer than 8 bytes, the empty one included, is answered
\* with the error "Instruction data too short"; no byte is read (a read
\* behind the end of the payload would be a panic).
C26_TooShortIsAnError ==
    decoded # None /\ Len(payload) < 8
    => Unwrap(decoded) = Err("none", "Instruction data too short")
\* A payload of 7 bytes was answered.
C26_Witness ==
    /\ decoded # None
    /\ Len(payload) = 7
    /\ Unwrap(decoded).kind = "err"

\* C27: whatever the bytes of the payload, the call returns Ok or Err and
\* does not panic, the offset of the creator computed from the payload's
\* length included.
C27_NeverPanics ==
    decoded # None => Unwrap(decoded).kind # "panic"

\* The payload is the create discriminator, the strings n, s and u with
\* their length prefixes, and t further bytes.
IsCreatePayload(n, s, u, t) ==
    /\ Utf8Valid(n) /\ Utf8Valid(s) /\ Utf8Valid(u)
    /\ payload = CREATE_EVENT_DISCRIMINATOR \o Borsh(n) \o Borsh(s) \o Borsh(u)
                   \o Trailing(t)

\* C28: a payload made of the create discriminator and three well-formed
\* length-prefixed strings, followed by any number of bytes, decodes to a
\* CreateEvent with exactly those strings.
C28_CreateStringsDecoded ==
    \A n \in Names, s \in Symbols, u \in Uris, t \in TrailingLens :
        decoded # None /\ IsCreatePayload(n, s, u, t)
        => /\ Unwrap(decoded).kind = "ok"
           /\ Unwrap(decoded).type = "CreateEvent"
           /\ Unwrap(decoded).name = n
           /\ Unwrap(decoded).symbol = s
           /\ Unwrap(decoded).uri = u

\* C29: when the strict create arm returns Ok, the creator is the last 32
\* bytes of the payload if 32 bytes follow the three strings, and the
\* all-zero default key if no byte follows them.
C29_CreatorFromTrailingBytes ==
    \A n \in Names, s \in Symbols, u \in Uris, t \in {0, 32} :
        /\ decoded # None /\ IsCreatePayload(n, s, u, t)
        /\ Unwrap(decoded).kind = "ok"
        => Unwrap(decoded).user =
             IF t = 32 THEN SubSeq(payload, Len(payload) - 31, Len(payload))
             ELSE PubkeyDefault

\* C30: a payload that begins with the full create (buy) discriminator is
\* decoded by the strict create (buy) arm; the first-byte arms are taken
\* exactly when the first byte is 24 (102) and the other seven bytes differ
\* from the discriminator's, and the first-byte create arm returns the
\* all-zero placeholder creator.
C30_StrictBeforeLoose ==
    decoded # None /\ Len(payload) >= 8 =>
        LET d == SubSeq(payload, 1, 8)
            r == Unwrap(decoded)
        IN /\ d = CREATE_EVENT_DISCRIMINATOR => r.arm = "create"
           /\ d = BUY_EVENT_DISCRIMINATOR => r.arm = "buy"
           /\ r.arm = "create_coin"
              <=> d[1] = 24 /\ Tail(d) # Tail(CREATE_EVENT_DISCRIMINATOR)
           /\ r.arm = "buy_tokens"
              <=> d[1] = 102 /\ Tail(d) # Tail(BUY_EVENT_DISCRIMINATOR)
           /\ r.arm = "create_coin" /\ r.kind = "ok" => r.user = PubkeyDefault
\* The full create discriminator in front of three strings and one further
\* byte: the strict arm answers with its error, where the first-byte arm
\* would have returned the strings.
C30_Witness ==
    /\ decoded # None
    /\ IsCreatePayload(<<97>>, <<98>>, Rep(99, 11), 1)
    /\ Unwrap(decoded) = Err("create", "Insufficient data for user pubkey")
    /\ LooseCreate(payload).kind = "ok"

\* The payload is the discriminator d, the two u64 a and c in little-endian
\* order, and t further bytes.
IsBuyPayload(d, a, c, t) == payload = d \o U64Le(a) \o U64Le(c) \o Trailing(t)
InsufficientBuyData ==
    { "Insufficient data for Buy instruction",
      "Insufficient data for BuyTokens instruction" }

\* C31: a payload dispatched to a buy arm (the full buy discriminator, or a
\* first byte of 102) of at least 24 bytes decodes to a Buy whose amount is
\* the little-endian u64 of bytes 8..16 and whose max cost is that of bytes
\* 16..24, whichever of the Borsh, manual and first-byte paths reads it; a
\* shorter one fails with the insufficient-data error.
C31_BuyFieldsDecoded ==
    decoded # None =>
        /\ \A d \in BuyDiscriminators, a \in BuyAmounts, c \in BuyCosts,
              t \in {0, 1} :
              IsBuyPayload(d, a, c, t)
              => /\ Unwrap(decoded).kind = "ok"
                 /\ Unwrap(decoded).type = "Buy"
                 /\ Unwrap(decoded).amount = a
                 /\ Unwrap(decoded).max_sol_cost = c
        /\ Unwrap(decoded).arm \in {"buy", "buy_tokens"}
           => IF Len(payload) >= 24
              THEN Unwrap(decoded).kind = "ok"
              ELSE /\ Unwrap(decoded).kind = "err"
                   /\ Unwrap(decoded).error \in InsufficientBuyData
\* The first-byte arm decoded two values that use more than one byte, from
\* a payload with a byte behind them.
C31_Witness ==
    /\ decoded # None
    /\ IsBuyPayload(<<102, 0, 0, 0, 0, 0, 0, 0>>, 70000, 16777217, 1)
    /\ Unwrap(decoded) = OkBuy("buy_tokens", 70000, 16777217)

\* C32: a payload of at least 8 bytes is answered with the error "Unknown
\* instruction data" exactly when its first byte is neither 24 nor 102.
C32_UnknownIffNoPatternMatches ==
    decoded # None /\ Len(payload) >= 8 =>
        (Unwrap(decoded) = Err("unknown", "Unknown instruction data")
           <=> payload[1] \notin {24, 102})
\* A payload that differs from the buy discriminator in its first byte only
\* was answered.
C32_Witness ==
    /\ decoded # None
    /\ Len(payload) >= 24
    /\ SubSeq(payload, 1, 8) = <<23, 6, 61, 18, 1, 218, 235, 234>>
    /\ Unwrap(decoded).error = "Unknown instruction data"

\* C36: the asset reserve of every tracked mint is strictly positive, and
\* the price a dispatched snipe task carries is a finite positive quotient.
C36_AssetReservePositive ==
    /\ \A m \in Mints : reserves[m] # None => Unwrap(reserves[m]).tok > 0
    /\ \A i \in TaskIds :
          tasks[i].pc = "spawned" => tasks[i].price.n > 0 /\ tasks[i].price.d > 0

\* C37: when store_mint_with_amount returns an error the queue has neither
\* a new due time nor a new amount for the mint, and snipe_token returns
\* Ok exactly when the buy was submitted successfully and both the due time
\* and the amount of the sale were written.
C37_StoreAllOrNothing ==
    [][\A i \in TaskIds :
         /\ tasks[i].pc = "store" /\ tasks'[i].pc = "done"
            => IF tasks'[i].res = "ok"
               THEN /\ tasks[i].subs = 1
                    /\ Entry(zset', tasks[i].mint)
                         = {<<tasks[i].mint, clock + policy.delay>>}
                    /\ MintAmount(amounts', tasks[i].mint) = Some(tasks[i].amount)
               ELSE zset' = zset /\ amounts' = amounts
         /\ tasks[i].pc = "buy_send" /\ tasks'[i].pc = "done"
            => tasks'[i].res # "ok"]_vars

\* C38: when get_and_remove_mints_to_sell returns an error (the iteration
\* ends in the pop without a batch), no pending sale has left the queue:
\* every entry removed by a pop is handed to the loop.
C38_FailedPopRemovesNothing ==
    [][sched.pc \in {"pop_read", "pop_remove"} /\ sched'.pc = "sleep"
         => zset' = zset]_vars

\* C39: process_entries does not panic on a deserialized transaction that
\* holds the target key: account_keys[1], account_keys[2] and
\* account_keys[program_id_index] are in range whatever the number of keys
\* and the indexes.
C39_KeyIndexesInRange ==
    stream.pc = "panicked"
    => stream.why \notin {"account_keys[1]", "account_keys[2]",
                          "account_keys[program_id_index]"}

\* C33: a buffer that fails to deserialize is skipped: reserves, queue and
\* snipe tasks are as before, and the loop is at the next buffer of the
\* stream with nothing else changed.
C33_BadBufferSkipped ==
    [][/\ stream.pc = "message" /\ stream.buffers # <<>>
       /\ ~Head(stream.buffers).valid
       => /\ reserves' = reserves /\ tasks' = tasks
          /\ zset' = zset /\ amounts' = amounts
          /\ stream'.pc = "message"
          /\ stream'.buffers = Tail(stream.buffers)
          /\ stream'.txs = <<>> /\ stream'.why = "none"]_vars
\* The first buffer was skipped and the creation event of the second one
\* has been applied.
C33_Witness ==
    /\ stream.skipped = 1
    /\ stream.buffers = <<>>
    /\ stream.pc = "instruction" /\ stream.instrs = <<>>
    /\ reserves["X"] = Some(InitialReserves)

\* The instruction at the head of the current transaction is one of the
\* target program whose payload the decoder answers with an error.
UndecodableInstruction ==
    /\ stream.pc = "instruction" /\ stream.instrs # <<>>
    /\ Head(stream.instrs).pid < Len(stream.keys)
    /\ stream.keys[Head(stream.instrs).pid + 1] \in {TokenCreator, PumpProgram}
    /\ parse_instruction_data(Head(stream.instrs).data).kind = "err"

\* C34: an instruction whose payload fails to decode is skipped: no reserve
\* entry changes and no snipe is dispatched, and the loop is at the next
\* instruction of the same transaction, the transactions and buffers that
\* follow being untouched.
C34_BadInstructionSkipped ==
    [][UndecodableInstruction
       => /\ reserves' = reserves /\ tasks' = tasks
          /\ stream'.pc = "instruction"
          /\ stream'.instrs = Tail(stream.instrs)
          /\ stream'.keys = stream.keys
          /\ stream'.txs = stream.txs
          /\ stream'.buffers = stream.buffers]_vars
\* The first instruction of a transaction was skipped, its second one, a
\* buy, dispatched a snipe, and the creation event of the transaction that
\* follows has been applied.
C34_Witness ==
    /\ stream.bad = 1 /\ stream.skipped = 0
    /\ stream.buffers = <<>> /\ stream.txs = <<>>
    /\ stream.pc = "instruction" /\ stream.instrs = <<>>
    /\ tasks[1].pc = "spawned" /\ tasks[1].mint = "X"
    /\ tasks[1].price = DefaultPrice
    /\ reserves["X"] = Some(InitialReserves)

\* C35: connect makes at most 5 connection attempts and subscribe_entries at
\* most 5 subscription attempts; the sleep after the k-th failed attempt is
\* k seconds and there is none after the last one; a call ends with Ok or
\* with the error of its last attempt, a reconnect that gives up inside
\* subscribe_entries ending it at once with that error; every call ends.
C35_ReconnectBounded ==
    /\ [](/\ client.conns <= max_retries /\ client.subs <= max_retries
          /\ client.pc = "connect_sleep"
             => /\ client.conns < max_retries
                /\ client.waits[Len(client.waits)] = client.conns
          /\ client.pc = "subscribe_sleep"
             => /\ client.subs < max_retries
                /\ client.waits[Len(client.waits)] = client.subs
          /\ client.pc = "done"
             => \/ client.result = "ok"
                \/ /\ client.result = "err"
                   /\ client.err \in
                        { AttemptError("connect", max_retries),
                          AttemptError("subscribe", max_retries) }
                   /\ client.op = "connect" => client.err[1] = "connect")
    /\ [][/\ client.pc = "connect" /\ client.conns = max_retries - 1
             => client'.pc \in {"done", "subscribe"}
                  /\ client'.waits = client.waits
          /\ client.pc = "subscribe" /\ client.subs = max_retries - 1
             => client'.pc = "done" /\ client'.waits = client.waits
          /\ client'.waits # client.waits
             => client'.pc \in {"connect_sleep", "subscribe_sleep"}]_vars
    /\ <>(client.pc = "done")
\* subscribe_entries failed four times, and the reconnect after the fourth
\* failure gave up after five attempts: the call ended with that error.
C35_Witness ==
    /\ client.op = "subscribe"
    /\ client.pc = "done"
    /\ client.subs = 4
    /\ client.conns = max_retries
    /\ client.err = AttemptError("connect", max_retries)
    /\ SubSeq(client.waits, Len(client.waits) - 4, Len(client.waits))
         = <<4, 1, 2, 3, 4>>
====
